---- MODULE Spec2Model ----
(***************************************************************************)
(* Polaris LLM gateway: retrieval-augmented completion pipeline.           *)
(*                                                                         *)
(* The module holds one state machine per component that is verified:      *)
(*   SpecCtx    build_llm_context and Summarizer.summarize                 *)
(*   SpecFiles  the uploads endpoint and the file records                  *)
(*   SpecVec    search_vectors and its in-process fallbacks                *)
(*   SpecCls    the tool-use classifier (search indicator)                 *)
(*   SpecReq    the chat-completions route and the completion handlers     *)
(*   SpecSum    Summarizer.summarize called on its own                     *)
(*   SpecChk    the fallback chunker _chunk_text_basic                     *)
(*   SpecUsage  update_thread and increment_thread_usage on one thread     *)
(*   SpecReqWait SpecReq with remote calls that never answer               *)
(*   SpecParse  Parse.parse and its list of parsers per extension          *)
(*   SpecRet    retrieve_relevant_context and the adaptive top_k           *)
(*   SpecWeb    unified_search and the web search providers                *)
(*   SpecCu     two uploads of the files endpoint in flight at once        *)
(*   SpecWl     the window loop of _chunk_text_basic, step by step         *)
(*   SpecAv     process_attachments_for_vectorization                      *)
(* Every specification starts the variables of the other components in an  *)
(* idle value and leaves them unchanged.                                   *)
(***************************************************************************)
EXTENDS Integers, Sequences, FiniteSets, TLC

VARIABLES
    ctx_in,       \* arguments of the first build_llm_context call
    ctx_runs,     \* results of the successive build_llm_context calls
    files,        \* the files table, in order of created_at
    disk,         \* names present in the uploads directory
    uuids,        \* number of uuid4 values drawn so far
    up_pc,        \* "idle" or "running": an upload request is in its file loop
    up_count,     \* files of the running request already processed
    up_done,      \* upload requests answered so far
    up_result,    \* result list of the running request
    up_ok,        \* all_successful of the running request
    up_response,  \* the last response sent, as a sequence of zero or one
    up_trace,     \* history: what each entry of up_result found and wrote
    up_hist,      \* history: per body, the file ids and stored name returned
    vec_store,    \* the vector_store table, in order of created_at
    vec_search,   \* the last search_vectors call and its result, zero or one
    cls_last,     \* the last classification or search stage, zero or one
    threads,      \* ids of the rows of the threads table
    messages,     \* rows of the messages table
    vectors,      \* rows of the vector store written by completion requests
    rq_pc,        \* stage of the completion request in flight, or "idle"
    rq_payload,   \* its payload
    rq_thread,    \* the thread it resolved, NoThread before
    rq_idx,       \* entries of payload["messages"] already processed
    rq_created,   \* created_messages of process_incoming_messages
    rq_content,   \* the reply text: "none", "reply" or "placeholder"
    rq_failed,    \* history: the stages of the request that failed
    rq_persisted, \* history: what the request wrote and what it found
    rq_response,  \* the response of the request, zero or one
    rq_done,      \* requests answered so far
    rq_route,     \* the (provider, model) of the request in flight
    rq_status,    \* HTTP status of its response, 0 before
    rq_trace,     \* history: creates and vectorizations, in the order issued
    rq_calls,     \* history: the calls of the context stage, in the order made
    sum_in,       \* arguments of a Summarizer.summarize call
    sum_out,      \* its result, as a sequence of zero or one
    sum_calls,    \* history: what each generate_content call of it returned
    chk_in,       \* arguments of a _chunk_text_basic call
    chk_out,      \* its result, as a sequence of zero or one
    usage_row,    \* tokens_spent and cost of one row of the threads table
    usage_calls,  \* the increment_thread_usage calls in flight
    usage_done,   \* thread updates completed so far
    up_log,       \* history: per file of the running request, what it changed
    parse_in,     \* the file given to Parse.parse and what its parsers answer
    parse_pc,     \* position in Parse.parse: "start", "loop" or "done"
    parse_tools,  \* the local list tools_used
    parse_out,    \* the result returned, as a sequence of zero or one
    ret_in,       \* arguments of retrieve_relevant_context and its classifier answer
    ret_pc,       \* "start" before the call, "done" after
    ret_limit,    \* the limit given to search_vectors, zero or one
    web_in,       \* the search configuration and what the provider does
    web_tool,     \* the tool get_preferred_search_tool returned, zero or one
    web_out,      \* the result of its _run, zero or one
    cu_files,     \* files table shared by the requests in flight
    cu_uuids,     \* uuid4 values drawn so far
    cu_workers,   \* server processes serving the application
    cu_unique,    \* the table refuses a second record of a content_hash
    cu_running,   \* request holding the event loop of a single process, 0 = none
    cu_up,        \* per request: position, bytes, name, lookup result, returned file_id
    wl_in,        \* text, chunk_size and chunk_overlap of the call
    wl_pc,        \* "loop" while the window loop runs, "done" after it
    wl_start,     \* start
    wl_chunk,     \* the chunk appended last
    av_vectors,   \* rows of namespace "files" in order of creation
    av_messages   \* messages with attachments processed so far

ctxVars == <<ctx_in, ctx_runs>>

fileVars ==
    <<files, disk, uuids, up_pc, up_count, up_done, up_result, up_ok, up_response,
      up_trace, up_hist, up_log>>

vecVars == <<vec_store, vec_search>>

clsVars == <<cls_last>>

reqVars ==
    <<threads, messages, vectors, rq_pc, rq_payload, rq_thread, rq_idx, rq_created,
      rq_content, rq_failed, rq_persisted, rq_response, rq_done, rq_route,
      rq_status, rq_trace, rq_calls>>

sumVars == <<sum_in, sum_out, sum_calls>>

chkVars == <<chk_in, chk_out>>

usageVars == <<usage_row, usage_calls, usage_done>>

parseVars == <<parse_in, parse_pc, parse_tools, parse_out>>

retVars == <<ret_in, ret_pc, ret_limit>>

webVars == <<web_in, web_tool, web_out>>

cuVars == <<cu_files, cu_uuids, cu_workers, cu_unique, cu_running, cu_up>>

wlVars == <<wl_in, wl_pc, wl_start, wl_chunk>>

avVars == <<av_vectors, av_messages>>

vars ==
    <<ctxVars, fileVars, vecVars, clsVars, reqVars, sumVars, chkVars, usageVars, parseVars, retVars, webVars, cuVars, wlVars, avVars>>

\* What the actions of one component leave unchanged.
ctxOther ==
    <<fileVars, vecVars, clsVars, reqVars, sumVars, chkVars, usageVars, parseVars, retVars, webVars, cuVars, wlVars, avVars>>

fileOther ==
    <<ctxVars, vecVars, clsVars, reqVars, sumVars, chkVars, usageVars, parseVars, retVars, webVars, cuVars, wlVars, avVars>>

vecOther ==
    <<ctxVars, fileVars, clsVars, reqVars, sumVars, chkVars, usageVars, parseVars, retVars, webVars, cuVars, wlVars, avVars>>

clsOther ==
    <<ctxVars, fileVars, vecVars, reqVars, sumVars, chkVars, usageVars, parseVars, retVars, webVars, cuVars, wlVars, avVars>>

reqOther ==
    <<ctxVars, fileVars, vecVars, clsVars, sumVars, chkVars, usageVars, parseVars, retVars, webVars, cuVars, wlVars, avVars>>

sumOther ==
    <<ctxVars, fileVars, vecVars, clsVars, reqVars, chkVars, usageVars, parseVars, retVars, webVars, cuVars, wlVars, avVars>>

chkOther ==
    <<ctxVars, fileVars, vecVars, clsVars, reqVars, sumVars, usageVars, parseVars, retVars, webVars, cuVars, wlVars, avVars>>

usageOther ==
    <<ctxVars, fileVars, vecVars, clsVars, reqVars, sumVars, chkVars, parseVars, retVars, webVars, cuVars, wlVars, avVars>>

parseOther ==
    <<ctxVars, fileVars, vecVars, clsVars, reqVars, sumVars, chkVars, usageVars, retVars, webVars, cuVars, wlVars, avVars>>

retOther ==
    <<ctxVars, fileVars, vecVars, clsVars, reqVars, sumVars, chkVars, usageVars, parseVars, webVars, cuVars, wlVars, avVars>>

webOther ==
    <<ctxVars, fileVars, vecVars, clsVars, reqVars, sumVars, chkVars, usageVars, parseVars, retVars, cuVars, wlVars, avVars>>

cuOther ==
    <<ctxVars, fileVars, vecVars, clsVars, reqVars, sumVars, chkVars, usageVars, parseVars, retVars, webVars, wlVars, avVars>>

wlOther ==
    <<ctxVars, fileVars, vecVars, clsVars, reqVars, sumVars, chkVars, usageVars, parseVars, retVars, webVars, cuVars, avVars>>

avOther ==
    <<ctxVars, fileVars, vecVars, clsVars, reqVars, sumVars, chkVars, usageVars, parseVars, retVars, webVars, cuVars, wlVars>>

None == "None"

(***************************************************************************)
(* Texts.  A text is represented by its tokenization: the sequence of the  *)
(* lengths, in characters, of its tokens.  len(text) is the sum of the     *)
(* entries, the token count is the number of entries, and a character      *)
(* slice text[:n] keeps the tokens in the first n characters, the last one *)
(* possibly cut short.                                                     *)
(***************************************************************************)
MaxTextLen == 2

MaxTokens == 3

TokenWidths == {1, 3}

RECURSIVE SeqsUpTo(_, _)
SeqsUpTo(S, n) ==
    IF n = 0 THEN {<<>>}
    ELSE LET shorter == SeqsUpTo(S, n - 1)
         IN  shorter \cup {Append(s, x) : s \in {t \in shorter : Len(t) = n - 1}, x \in S}

Texts == SeqsUpTo(TokenWidths, MaxTextLen)

RECURSIVE CharLen(_)
CharLen(text) ==
    IF text = <<>> THEN 0 ELSE Head(text) + CharLen(Tail(text))

\* text[:n]
RECURSIVE Slice(_, _)
Slice(text, n) ==
    IF n <= 0 \/ text = <<>> THEN <<>>
    ELSE IF Head(text) <= n THEN <<Head(text)>> \o Slice(Tail(text), n - Head(text))
    ELSE <<n>>

\* The (provider, model) pairs for which a tokenizer module exists on disk.
TokenizerModels == {<<"deepseek", "deepseek-reasoner">>, <<"openai", "gpt-4">>}

\* The pairs the completion handlers pass.
CallerModels == {<<"deepseek", "deepseek-reasoner">>, <<"deepseek", "deepseek-chat">>}

\* The error_code of a call that succeeded: None, which "if error_code" reads
\* as false.
NoErrorCode == 0

MAX_TOKEN_LIMIT == 1000000

\* A text of MAX_TOKEN_LIMIT + 1 tokens.  Its tokens are not spelled out:
\* it is kept as the one text that holds the token width 0.
Oversize == <<0>>

\* len(tokens) of tokenize(text)
TokenCount(text) == IF text = Oversize THEN MAX_TOKEN_LIMIT + 1 ELSE Len(text)

\* token_counter(text, provider, model) -> (token_count, error_code)
token_counter(text, pm) ==
    IF pm \notin TokenizerModels THEN <<0, 404>>
    ELSE <<TokenCount(text), NoErrorCode>>

Count(text, pm) == token_counter(text, pm)[1]

(***************************************************************************)
(* Summarizer.summarize.  The LLM answers each pass with any text or       *)
(* raises; the operator yields the set of results the call can return.     *)
(***************************************************************************)
max_attempts == 3

\* The summaries the LLM is taken to write: texts of one-character tokens.
SummaryTexts == SeqsUpTo({1}, MaxTextLen)

\* What one generate_content call does: it returns a text or raises.
LLMResponses ==
    {[raises |-> FALSE, text |-> t] : t \in SummaryTexts} \cup {[raises |-> TRUE, text |-> <<>>]}

SummaryResult(st, c, o, r) ==
    [status |-> st, content |-> c, original_size |-> o, reduced_size |-> r]

\* A result with the generate_content calls that were made to reach it.
Traced(result, calls) == [result |-> result, calls |-> calls]

\* A loop that never takes its early return.
target_never_reached(current_size, target_size) == FALSE

\* Lines 125-133: "if current_size <= target_size: return".
target_reached(current_size, target_size) == current_size <= target_size

RECURSIVE SummarizePasses(_, _, _, _, _)
SummarizePasses(current_context, original_size, target_size, pm, calls) ==
    IF Len(calls) = max_attempts
    THEN {Traced(SummaryResult(200, current_context, original_size,
                               Count(current_context, pm)), calls)}
    ELSE UNION {
        IF resp.raises
        THEN {Traced(SummaryResult(500, <<>>, original_size, 0), Append(calls, resp))}
        ELSE IF token_counter(resp.text, pm)[2] # NoErrorCode
        THEN {Traced(SummaryResult(token_counter(resp.text, pm)[2], <<>>, original_size, 0),
                     Append(calls, resp))}
        ELSE IF target_reached(Count(resp.text, pm), target_size)
        THEN {Traced(SummaryResult(200, resp.text, original_size, Count(resp.text, pm)),
                     Append(calls, resp))}
        ELSE SummarizePasses(resp.text, original_size, target_size, pm, Append(calls, resp))
        : resp \in LLMResponses}

\* Summarizer.summarize, each result with the LLM calls behind it.
summarize_traced(context, target_size, pm) ==
    LET counted == token_counter(context, pm)
        original_size == counted[1]
    IN  IF context = <<>>
        THEN IF counted[2] # NoErrorCode
             THEN {Traced(SummaryResult(counted[2], <<>>, 0, 0), <<>>)}
             ELSE {Traced(SummaryResult(204, <<>>, original_size, original_size), <<>>)}
        ELSE IF counted[2] # NoErrorCode
        THEN {Traced(SummaryResult(counted[2], <<>>, 0, 0), <<>>)}
        ELSE IF original_size > MAX_TOKEN_LIMIT
        THEN {Traced(SummaryResult(400, <<>>, original_size, 0), <<>>)}
        ELSE IF original_size <= target_size
        THEN {Traced(SummaryResult(200, context, original_size, original_size), <<>>)}
        ELSE SummarizePasses(context, original_size, target_size, pm, <<>>)

summarize(context, target_size, pm) ==
    {t.result : t \in summarize_traced(context, target_size, pm)}

(***************************************************************************)
(* build_llm_context.  Capacities are the rationals c_A, c_B, c_C of the   *)
(* code, kept as numerators over the common denominator W = p_A+p_B+p_C.   *)
(***************************************************************************)
Weightings ==
    {[query |-> 2, query_context |-> 2, local_context |-> 2],
     [query |-> 3, query_context |-> 1, local_context |-> 2]}

\* text[:int(len(text) * (c / tokens))] with c = cNum / W
TruncateToCapacity(text, tokens, cNum, W) ==
    Slice(text, (CharLen(text) * cNum) \div (W * tokens))

\* A comparison that sends a segment exactly at its capacity to be shrunk.
segment_fits_strictly(tokens, W, cNum) == tokens * W < cNum

\* "if query_text_tokens <= c_A", and the same for c_B and c_C.
segment_fits(tokens, W, cNum) == tokens * W <= cNum

\* "result = summarize_context(text, int(c), provider, model)": one call.
summarize_segment(text, target_size, pm) ==
    {[status |-> r.status, content |-> r.content, calls |-> 1]
     : r \in summarize(text, target_size, pm)}

\* One segment against its capacity: the set of [final, fits, calls].
FitSegment(text, tokens, cNum, W, pm, use_summarization) ==
    IF segment_fits(tokens, W, cNum)
    THEN {[final |-> text, fits |-> TRUE, calls |-> 0]}
    ELSE IF use_summarization
    THEN {[final |-> IF r.status = 200 THEN r.content
                     ELSE TruncateToCapacity(text, tokens, cNum, W),
           fits |-> FALSE, calls |-> r.calls]
          : r \in summarize_segment(text, cNum \div W, pm)}
    ELSE {[final |-> TruncateToCapacity(text, tokens, cNum, W),
           fits |-> FALSE, calls |-> 0]}

\* The summarizer invoked n times for the segment.
Invoked(segment, n) == [k \in 1..n |-> segment]

ContextResult(q, qc, lc, n) ==
    [query |-> q, query_context |-> qc, local_context |-> lc, summarizer_calls |-> n]

\* Lines 185-264: weighted allocation, fitting A, B, C in order.
WeightedFit(query_text, query_context, local_context, max_tokens, pm, weighting, use_summarization, calls) ==
    LET p_A == weighting.query
        p_B == weighting.query_context
        p_C == weighting.local_context
        W == p_A + p_B + p_C
        tA == Count(query_text, pm)
        tB == Count(query_context, pm)
        tC == Count(local_context, pm)
        c_A == p_A * max_tokens
    IN  UNION {
          LET c_B == p_B * max_tokens + (IF a.fits THEN c_A - tA * W ELSE 0)
          IN  UNION {
                LET c_C == p_C * max_tokens + (IF b.fits THEN c_B - tB * W ELSE 0)
                IN  {ContextResult(a.final, b.final, c.final,
                                   calls \o Invoked("query", a.calls)
                                         \o Invoked("query_context", b.calls)
                                         \o Invoked("local_context", c.calls))
                     : c \in FitSegment(local_context, tC, c_C, W, pm, use_summarization)}
                : b \in FitSegment(query_context, tB, c_B, W, pm, use_summarization)}
          : a \in FitSegment(query_text, tA, c_A, W, pm, use_summarization)}

build_llm_context(query_text, query_context, local_context, max_tokens, pm, weighting, use_summarization) ==
    LET tA == Count(query_text, pm)
        tB == Count(query_context, pm)
        tC == Count(local_context, pm)
        weighted(calls) ==
            WeightedFit(query_text, query_context, local_context, max_tokens, pm,
                        weighting, use_summarization, calls)
    IN  IF tA + tB + tC <= max_tokens
        THEN {ContextResult(query_text, query_context, local_context, <<>>)}
        ELSE IF tA > max_tokens
        THEN IF use_summarization
             THEN UNION {
                    IF r.status = 200
                    THEN {ContextResult(r.content, <<>>, <<>>, Invoked("whole_budget", r.calls))}
                    ELSE weighted(Invoked("whole_budget", r.calls))
                    : r \in summarize_segment(query_text, max_tokens, pm)}
             ELSE {ContextResult(Slice(query_text,
                                       (CharLen(query_text) * max_tokens) \div tA),
                                 <<>>, <<>>, <<>>)}
        ELSE weighted(<<>>)

(***************************************************************************)
(* SpecCtx: build_llm_context applied to bounded inputs, then applied      *)
(* again to the texts it returned.                                         *)
(***************************************************************************)
MaxRuns == 2

CtxInputs ==
    [query_text : Texts, query_context : Texts, local_context : Texts,
     max_tokens : 1..MaxTokens, pm : CallerModels, weighting : Weightings,
     use_summarization : BOOLEAN]

CtxIdle ==
    [query_text |-> <<>>, query_context |-> <<>>, local_context |-> <<>>,
     max_tokens |-> 1, pm |-> <<"deepseek", "deepseek-reasoner">>,
     weighting |-> [query |-> 2, query_context |-> 2, local_context |-> 2],
     use_summarization |-> TRUE]

CtxIdleInit ==
    /\ ctx_in = CtxIdle
    /\ ctx_runs = <<>>

CtxInit ==
    /\ ctx_in \in CtxInputs
    /\ ctx_runs = <<>>

\* The texts the next call receives: the caller's, or the previous call's result.
CtxArgs ==
    IF ctx_runs = <<>>
    THEN [query_text |-> ctx_in.query_text, query_context |-> ctx_in.query_context,
          local_context |-> ctx_in.local_context]
    ELSE LET last == ctx_runs[Len(ctx_runs)]
         IN  [query_text |-> last.query, query_context |-> last.query_context,
              local_context |-> last.local_context]

BuildLlmContext ==
    /\ UNCHANGED ctxOther
    /\ Len(ctx_runs) < MaxRuns
    /\ \E r \in build_llm_context(CtxArgs.query_text, CtxArgs.query_context,
                                  CtxArgs.local_context, ctx_in.max_tokens, ctx_in.pm,
                                  ctx_in.weighting, ctx_in.use_summarization) :
          ctx_runs' = Append(ctx_runs, r)
    /\ UNCHANGED ctx_in

CtxNext == BuildLlmContext

TotalTokens(r, pm) ==
    Count(r.query, pm) + Count(r.query_context, pm) + Count(r.local_context, pm)

\* C1: the three strings returned by build_llm_context satisfy
\* count(query) + count(query_context) + count(local_context) <= max_tokens.
C1_BudgetHolds ==
    \A i \in 1..Len(ctx_runs) : TotalTokens(ctx_runs[i], ctx_in.pm) <= ctx_in.max_tokens

\* C10: a second run of build_llm_context on the strings the first run returned
\* gives back the same three strings (and so the same token counts).
C10_Idempotent ==
    Len(ctx_runs) = 2 =>
        /\ ctx_runs[2].query = ctx_runs[1].query
        /\ ctx_runs[2].query_context = ctx_runs[1].query_context
        /\ ctx_runs[2].local_context = ctx_runs[1].local_context

\* The three texts run i of build_llm_context received.
RunInput(i) ==
    IF i = 1
    THEN [query_text |-> ctx_in.query_text, query_context |-> ctx_in.query_context,
          local_context |-> ctx_in.local_context]
    ELSE [query_text |-> ctx_runs[i - 1].query,
          query_context |-> ctx_runs[i - 1].query_context,
          local_context |-> ctx_runs[i - 1].local_context]

QueryOverBudget(i) == Count(RunInput(i).query_text, ctx_in.pm) > ctx_in.max_tokens

\* C26: when the query alone has more tokens than max_tokens and
\* summarization is in use, the query returned is within max_tokens and
\* both contexts returned are empty, whatever the summarizer answered.
C26_OversizeQueryAlone ==
    \A i \in DOMAIN ctx_runs :
       (QueryOverBudget(i) /\ ctx_in.use_summarization) =>
          /\ Count(ctx_runs[i].query, ctx_in.pm) <= ctx_in.max_tokens
          /\ ctx_runs[i].query_context = <<>>
          /\ ctx_runs[i].local_context = <<>>

\* The place of a summarizer invocation in the order of the code.
InvocationRank(segment) ==
    CASE segment = "whole_budget" -> 0
      [] segment = "query" -> 1
      [] segment = "query_context" -> 2
      [] segment = "local_context" -> 3

\* The text of the input that a summarizer invocation was given.
SummarizedSegment(invocation) ==
    IF invocation = "whole_budget" THEN "query" ELSE invocation

\* C27: a call of build_llm_context returns; the summarizer invocations it
\* made are, in order and each at most once, the whole-budget summarization
\* of an oversize query, then the query, the query context and the local
\* context; and no two of them were given the same segment.
C27_SummarizerOncePerSegment ==
    /\ \A i \in DOMAIN ctx_runs :
          \A p, q \in DOMAIN ctx_runs[i].summarizer_calls :
             p < q => /\ InvocationRank(ctx_runs[i].summarizer_calls[p])
                           < InvocationRank(ctx_runs[i].summarizer_calls[q])
                      /\ SummarizedSegment(ctx_runs[i].summarizer_calls[p])
                           # SummarizedSegment(ctx_runs[i].summarizer_calls[q])
    /\ Len(ctx_runs) < MaxRuns => ENABLED BuildLlmContext

\* The weighted fitting of lines 185-257 was reached in run i.
WeightedFitRan(i) ==
    LET args == RunInput(i)
    IN  /\ Count(args.query_text, ctx_in.pm) + Count(args.query_context, ctx_in.pm)
              + Count(args.local_context, ctx_in.pm) > ctx_in.max_tokens
        /\ QueryOverBudget(i) =>
              /\ ctx_in.use_summarization
              /\ ctx_runs[i].summarizer_calls # <<"whole_budget">>

\* The capacities of the three segments of run i, over the denominator W:
\* the weighted share, plus what the segment before left unused.
Capacities(i) ==
    LET args == RunInput(i)
        W == ctx_in.weighting.query + ctx_in.weighting.query_context
                + ctx_in.weighting.local_context
        tA == Count(args.query_text, ctx_in.pm) * W
        tB == Count(args.query_context, ctx_in.pm) * W
        cA == ctx_in.weighting.query * ctx_in.max_tokens
        cB == ctx_in.weighting.query_context * ctx_in.max_tokens
                + (IF tA <= cA THEN cA - tA ELSE 0)
        cC == ctx_in.weighting.local_context * ctx_in.max_tokens
                + (IF tB <= cB THEN cB - tB ELSE 0)
    IN  [W |-> W, query |-> cA, query_context |-> cB, local_context |-> cC]

\* C28: in the weighted fitting a segment whose token count is within its
\* capacity is returned unchanged and is not summarized; the capacity of
\* the query is its share, that of each context its share plus what the
\* segment before it left unused.
C28_FittingSegmentUnchanged ==
    \A i \in DOMAIN ctx_runs :
       WeightedFitRan(i) =>
          LET args == RunInput(i)
              c == Capacities(i)
              calls == ctx_runs[i].summarizer_calls
          IN  /\ Count(args.query_text, ctx_in.pm) * c.W <= c.query
                   => /\ ctx_runs[i].query = args.query_text
                      /\ \A k \in DOMAIN calls : calls[k] # "query"
              /\ Count(args.query_context, ctx_in.pm) * c.W <= c.query_context
                   => /\ ctx_runs[i].query_context = args.query_context
                      /\ \A k \in DOMAIN calls : calls[k] # "query_context"
              /\ Count(args.local_context, ctx_in.pm) * c.W <= c.local_context
                   => /\ ctx_runs[i].local_context = args.local_context
                      /\ \A k \in DOMAIN calls : calls[k] # "local_context"

\* A query within its share is returned as it came, the query context has
\* the leftover of the query and fits with it, the local context is shrunk.
C28_Witness ==
    /\ Len(ctx_runs) >= 1
    /\ WeightedFitRan(1)
    /\ ctx_in.query_text # <<>>
    /\ ctx_runs[1].query = ctx_in.query_text
    /\ Count(ctx_in.query_text, ctx_in.pm) * Capacities(1).W < Capacities(1).query
    /\ ctx_in.query_context # <<>>
    /\ ctx_runs[1].query_context = ctx_in.query_context
    /\ Count(ctx_in.query_context, ctx_in.pm) * Capacities(1).W
          > ctx_in.weighting.query_context * ctx_in.max_tokens
    /\ ctx_runs[1].local_context # ctx_in.local_context

(***************************************************************************)
(* The uploads endpoint and the files table.  A file body is a number: 0   *)
(* stands for a body over the size limit, b > 0 for a body of b bytes, and *)
(* different numbers are different byte strings.  A filename is the pair   *)
(* <<stem, extension>> that os.path.splitext yields.  An address is either *)
(* <<"deleted">> or the stored name <<"file-", uuid, extension>>.          *)
(***************************************************************************)
MAX_FILE_SIZE == 268435456

NumContents == 2

MaxUploadRequests == 2

MaxFilesPerRequest == 2

Contents == 0..NumContents

Size(b) == IF b = 0 THEN MAX_FILE_SIZE + 1 ELSE b

Filenames == {<<"report", ".pdf">>, <<"SCAN", ".PDF">>, <<"tool", ".exe">>}

SUPPORTED_EXTENSIONS == {".pdf", ".docx", ".png", ".mp3", ".mp4", ".txt", ".json"}

\* str.lower on an extension
lower(ext) == IF ext = ".PDF" THEN ".pdf" ELSE ext

\* hashlib.sha256(...).hexdigest(): different bodies have different digests.
sha256(b) == <<"sha256", b>>

deleted == <<"deleted">>

\* Where a step of the file loop can raise: nowhere, in the lookup by hash,
\* in the write to disk, in the PATCH of the record, in the POST of the record.
UploadFaults == {"none", "find", "write", "update", "create"}

\* A lookup that never finds a record: C2 must not hold with it.
find_no_file_by_hash(fs, content_hash) == {}

\* GET /files?content_hash=eq.h carries no order: results[0] is any match.
\* The empty set stands for None.
find_existing_file_by_hash(fs, content_hash) ==
    {fs[i] : i \in {j \in DOMAIN fs : fs[j].content_hash = content_hash}}

\* list_files(content_hash=h) orders by created_at.desc: positions, newest first.
find_files_by_content_hash(fs, content_hash) ==
    LET match == {j \in DOMAIN fs : fs[j].content_hash = content_hash}
        RECURSIVE desc(_)
        desc(S) == IF S = {} THEN <<>>
                   ELSE LET m == CHOOSE x \in S : \A y \in S : y <= x
                        IN  <<m>> \o desc(S \ {m})
    IN  desc(match)

\* PATCH /files?file_id=eq.id with {"address": address}
update_file(fs, file_id, address) ==
    [i \in DOMAIN fs |->
        IF fs[i].file_id = file_id THEN [fs[i] EXCEPT !.address = address] ELSE fs[i]]

mark_file_as_deleted(fs, file_id) == update_file(fs, file_id, deleted)

\* An update whose PATCH is lost: C3 must not hold with it.
update_by_content_hash_lost(fs, content_hash, address) ==
    LET matching_files == find_files_by_content_hash(fs, content_hash)
    IN  IF matching_files # <<>>
        THEN [updated |-> <<fs[matching_files[1]]>>, files |-> fs]
        ELSE [updated |-> <<>>, files |-> fs]

\* The record that is updated (a sequence of zero or one) and the new table.
update_file_by_content_hash(fs, content_hash, address) ==
    LET matching_files == find_files_by_content_hash(fs, content_hash)
    IN  IF matching_files # <<>>
        THEN LET first_match == fs[matching_files[1]]
             IN  [updated |-> <<[first_match EXCEPT !.address = address]>>,
                  files |-> update_file(fs, first_match.file_id, address)]
        ELSE [updated |-> <<>>, files |-> fs]

\* POST /files: the table assigns the next file_id.
create_file(fs, filename, address, content_hash) ==
    Append(fs, [file_id |-> Len(fs) + 1, filename |-> filename,
                content_hash |-> content_hash, address |-> address])

\* save_file_to_disk: file-<uuid4><ext>, ext taken from the name as given.
save_file_to_disk(n, filename) == <<"file-", n + 1, filename[2]>>

UploadOutcome(fs, d, n, entry, trace) ==
    [files |-> fs, disk |-> d, uuids |-> n, entry |-> entry, trace |-> trace]

UploadFailed(fs, d, n) == UploadOutcome(fs, d, n, <<>>, <<>>)

UploadEntry(file_id, size, filename, stored_filename) ==
    [file_id |-> file_id, size |-> size, filename |-> filename,
     stored_filename |-> stored_filename]

UploadTrace(b, found, wrote) == [content |-> b, found |-> found, wrote |-> wrote]

\* One iteration of the loop over the files of a request (the try block).
UploadOne(fs, d, n, b, filename, fault) ==
    LET size == Size(b)
        file_ext == lower(filename[2])
        binary_content_hash == sha256(b)
        found == find_existing_file_by_hash(fs, binary_content_hash)
        stored_filename == save_file_to_disk(n, filename)
        created == create_file(fs, filename, stored_filename, binary_content_hash)
    IN  IF size > MAX_FILE_SIZE THEN {UploadFailed(fs, d, n)}
        ELSE IF file_ext \notin SUPPORTED_EXTENSIONS THEN {UploadFailed(fs, d, n)}
        ELSE IF fault = "find" THEN {UploadFailed(fs, d, n)}
        ELSE IF found = {}
        THEN IF fault = "write" THEN {UploadFailed(fs, d, n + 1)}
             ELSE IF fault = "create"
             THEN {UploadFailed(fs, d \cup {stored_filename}, n + 1)}
             ELSE {UploadOutcome(created, d \cup {stored_filename}, n + 1,
                       <<UploadEntry(created[Len(created)].file_id, size, filename,
                                     stored_filename)>>,
                       <<UploadTrace(b, <<>>, {stored_filename})>>)}
        ELSE {IF existing_file.address # deleted
              THEN LET u == update_file_by_content_hash(fs, binary_content_hash,
                                                        existing_file.address)
                   IN  IF fault = "update" \/ u.updated = <<>>
                       THEN UploadFailed(fs, d, n)
                       ELSE UploadOutcome(u.files, d, n,
                                <<UploadEntry(u.updated[1].file_id, size, filename,
                                              existing_file.address)>>,
                                <<UploadTrace(b, <<existing_file>>, {})>>)
              ELSE LET u == update_file_by_content_hash(fs, binary_content_hash,
                                                        stored_filename)
                   IN  IF fault = "write" THEN UploadFailed(fs, d, n + 1)
                       ELSE IF fault = "update" \/ u.updated = <<>>
                       THEN UploadFailed(fs, d \cup {stored_filename}, n + 1)
                       ELSE UploadOutcome(u.files, d \cup {stored_filename}, n + 1,
                                <<UploadEntry(u.updated[1].file_id, size, filename,
                                              stored_filename)>>,
                                <<UploadTrace(b, <<existing_file>>, {stored_filename})>>)
              : existing_file \in found}

\* The file is over MAX_FILE_SIZE or its extension is not supported.
Rejected(b, filename) ==
    Size(b) > MAX_FILE_SIZE \/ lower(filename[2]) \notin SUPPORTED_EXTENSIONS

\* A response that never reports a partial success.
upload_status_all_or_nothing(count, all_successful, result) ==
    IF count # 0 /\ all_successful THEN 200 ELSE 400

\* Lines 105-113 and 242-271: the status of the response.
upload_status(count, all_successful, result) ==
    IF count = 0 THEN 400
    ELSE IF all_successful THEN 200
    ELSE IF result # <<>> THEN 207
    ELSE 400

FilesInit ==
    /\ files = <<>>
    /\ disk = {}
    /\ uuids = 0
    /\ up_pc = "idle"
    /\ up_count = 0
    /\ up_done = 0
    /\ up_result = <<>>
    /\ up_ok = TRUE
    /\ up_response = <<>>
    /\ up_trace = <<>>
    /\ up_hist = [b \in Contents |-> [ids |-> {}, stored |-> <<>>]]
    /\ up_log = <<>>

\* POST /files arrives.
ReceiveUpload ==
    /\ UNCHANGED fileOther
    /\ up_pc = "idle"
    /\ up_done < MaxUploadRequests
    /\ up_pc' = "running"
    /\ up_count' = 0
    /\ up_result' = <<>>
    /\ up_ok' = TRUE
    /\ up_trace' = <<>>
    /\ up_log' = <<>>
    /\ UNCHANGED <<files, disk, uuids, up_done, up_response, up_hist>>

\* The loop body for the next file of the request.
ProcessUploadFile ==
    /\ UNCHANGED fileOther
    /\ up_pc = "running"
    /\ up_count < MaxFilesPerRequest
    /\ \E b \in Contents, filename \in Filenames, fault \in UploadFaults :
         \E o \in UploadOne(files, disk, uuids, b, filename, fault) :
            /\ files' = o.files
            /\ disk' = o.disk
            /\ uuids' = o.uuids
            /\ up_count' = up_count + 1
            /\ up_result' = up_result \o o.entry
            /\ up_ok' = (up_ok /\ o.entry # <<>>)
            /\ up_trace' = up_trace \o
                   [k \in DOMAIN o.trace |->
                       [content |-> b, found |-> o.trace[k].found,
                        wrote |-> o.trace[k].wrote, disk_before |-> disk,
                        previous |-> up_hist[b].stored]]
            /\ up_hist' =
                   IF o.entry = <<>> THEN up_hist
                   ELSE [up_hist EXCEPT
                           ![b] = [ids |-> @.ids \cup {o.entry[1].file_id},
                                   stored |-> <<o.entry[1].stored_filename>>]]
            /\ up_log' = Append(up_log,
                   [rejected |-> Rejected(b, filename),
                    changed |-> (o.files # files \/ o.disk # disk \/ o.uuids # uuids
                                   \/ o.entry # <<>>)])
    /\ UNCHANGED <<up_pc, up_done, up_response>>

\* The response after the loop (or the early 400 when no file was sent).
RespondUpload ==
    /\ UNCHANGED fileOther
    /\ up_pc = "running"
    /\ up_response' =
          <<[status |-> upload_status(up_count, up_ok, up_result), result |-> up_result]>>
    /\ up_pc' = "idle"
    /\ up_done' = up_done + 1
    /\ UNCHANGED <<files, disk, uuids, up_count, up_result, up_ok, up_trace, up_hist,
                   up_log>>

\* mark_file_as_deleted(file_id), between two upload requests.
MarkFileAsDeleted ==
    /\ UNCHANGED fileOther
    /\ up_pc = "idle"
    /\ \E i \in DOMAIN files :
          files' = mark_file_as_deleted(files, files[i].file_id)
    /\ UNCHANGED <<disk, uuids, up_pc, up_count, up_done, up_result, up_ok,
                   up_response, up_trace, up_hist, up_log>>

FilesNext ==
    \/ ReceiveUpload
    \/ ProcessUploadFile
    \/ RespondUpload
    \/ MarkFileAsDeleted

\* The record of the files table with the given file_id.
FileRecord(file_id) == files[CHOOSE i \in DOMAIN files : files[i].file_id = file_id]

\* C2: uploads of identical bytes return one file_id whatever their filenames,
\* an upload that finds the record not deleted returns the stored_filename the
\* previous upload of these bytes returned, and no two file records share a
\* content_hash.
C2_UploadDedup ==
    /\ \A b \in Contents : Cardinality(up_hist[b].ids) <= 1
    /\ \A i, j \in DOMAIN files : files[i].content_hash = files[j].content_hash => i = j
    /\ \A k \in DOMAIN up_result :
          (up_trace[k].found # <<>> /\ up_trace[k].found[1].address # deleted)
             => /\ up_trace[k].previous # <<>>
                /\ up_result[k].stored_filename = up_trace[k].previous[1]

C2_Witness ==
    \E k \in DOMAIN up_result :
       /\ up_trace[k].found # <<>>
       /\ up_trace[k].found[1].address # deleted
       /\ up_trace[k].found[1].filename # up_result[k].filename
       /\ \E i \in DOMAIN files : files[i].address = deleted

\* C3: an upload of bytes whose record is marked deleted returns the record's
\* file_id, writes a new file-<uuid><ext> to disk, and leaves the record with
\* that name as its address (not "deleted") until the request is answered.
C3_RestoreDeleted ==
    up_pc = "running" =>
       \A k \in DOMAIN up_result :
          (up_trace[k].found # <<>> /\ up_trace[k].found[1].address = deleted)
             => /\ up_result[k].file_id = up_trace[k].found[1].file_id
                /\ up_result[k].stored_filename \in disk \ up_trace[k].disk_before
                /\ up_result[k].stored_filename[1] = "file-"
                /\ up_result[k].stored_filename[3] = up_result[k].filename[2]
                /\ FileRecord(up_result[k].file_id).address = up_result[k].stored_filename
                /\ FileRecord(up_result[k].file_id).address # deleted

C3_Witness ==
    /\ up_pc = "running"
    /\ \E k \in DOMAIN up_result :
          /\ up_trace[k].found # <<>>
          /\ up_trace[k].found[1].address = deleted

\* C21: a file that is too large or of an unsupported type changes nothing
\* (no write to disk, no file record created or touched, no entry in the
\* result list), and the response is 200 when every file of the request
\* succeeded, 207 when some did and some did not, 400 when none did.
C21_RejectedNoEffect ==
    /\ \A k \in DOMAIN up_log : up_log[k].rejected => ~up_log[k].changed
    /\ Len(up_result) <= Len(up_log)
    /\ (up_pc = "idle" /\ up_done > 0) =>
          /\ up_response[1].result = up_result
          /\ up_response[1].status =
                IF Len(up_result) = 0 THEN 400
                ELSE IF Len(up_result) = Len(up_log) THEN 200
                ELSE 207

\* A request whose first file was rejected and whose second succeeded,
\* answered 207.
C21_Witness ==
    /\ up_pc = "idle"
    /\ up_done > 0
    /\ Len(up_log) = 2
    /\ up_log[1].rejected
    /\ ~up_log[2].rejected
    /\ Len(up_result) = 1
    /\ up_response[1].status = 207

(***************************************************************************)
(* search_vectors.  The vector store is the sequence of its rows in order  *)
(* of created_at.  An embedding is a pair of naturals; similarities are    *)
(* compared exactly, by cross-multiplying the squares.  The thread_id of a *)
(* row stands for its thread and namespace together.                       *)
(***************************************************************************)
MaxVectors == 4

MaxLimit == 2

LIST_VECTORS_LIMIT == 100

Embeddings == {<<1, 0>>, <<1, 1>>, <<0, 1>>}

QueryEmbeddings == {<<1, 0>>, <<2, 1>>}

\* similarity_threshold as <<numerator, denominator>>: 0.5 and 0.7
Thresholds == {<<1, 2>>, <<7, 10>>}

ThreadIds == {"t1", "t2"}

dot(a, b) == a[1] * b[1] + a[2] * b[2]

\* cosine_similarity(q, v) >= num / den, with dot(q, v) >= 0
SimilarityAtLeast(q, v, thr) ==
    (dot(q, v) * thr[2]) * (dot(q, v) * thr[2]) >= thr[1] * thr[1] * dot(q, q) * dot(v, v)

\* cosine_similarity(q, v1) <= cosine_similarity(q, v2)
SimilarityLeq(q, v1, v2) ==
    dot(q, v1) * dot(q, v1) * dot(v2, v2) <= dot(q, v2) * dot(q, v2) * dot(v1, v1)

RECURSIVE Orderings(_)
Orderings(S) ==
    IF S = {} THEN {<<>>}
    ELSE UNION {{<<x>> \o o : o \in Orderings(S \ {x})} : x \in S}

\* s[:n]
Take(s, n) == IF Len(s) <= n THEN s ELSE SubSeq(s, 1, n)

ThreadRows(store, thread_id) == {store[i] : i \in {j \in DOMAIN store : store[j].thread_id = thread_id}}

\* The search_vectors stored procedure: the rows of the thread with
\* similarity >= threshold, by descending similarity, the first match_count.
\* Rows of equal similarity may come in either order.
rpc_search_vectors(store, query_embedding, thread_id, thr, match_count) ==
    LET hits == {v \in ThreadRows(store, thread_id) :
                    SimilarityAtLeast(query_embedding, v.embedding, thr)}
        ranked == {o \in Orderings(hits) :
                    \A i, j \in DOMAIN o :
                       i < j => SimilarityLeq(query_embedding, o[j].embedding, o[i].embedding)}
    IN  {Take(o, match_count) : o \in ranked}

\* The get_thread_vectors stored procedure: at most limit_param rows of the thread.
rpc_get_thread_vectors(store, thread_id, limit_param) ==
    LET rows == ThreadRows(store, thread_id)
        n == IF Cardinality(rows) <= limit_param THEN Cardinality(rows) ELSE limit_param
    IN  UNION {Orderings(S) : S \in {T \in SUBSET rows : Cardinality(T) = n}}

\* list_vectors(thread_id, namespace, limit): newest first.
RECURSIVE list_vectors(_, _, _)
list_vectors(store, thread_id, limit) ==
    IF store = <<>> \/ limit = 0 THEN <<>>
    ELSE LET last == store[Len(store)]
             rest == SubSeq(store, 1, Len(store) - 1)
         IN  IF last.thread_id = thread_id
             THEN <<last>> \o list_vectors(rest, thread_id, limit - 1)
             ELSE list_vectors(rest, thread_id, limit)

\* A list left in the order it was fetched in.
LeftUnsorted(s, q) == s

\* list.sort(key=similarity, reverse=True): stable, descending.
RECURSIVE SortBySimilarity(_, _)
SortBySimilarity(s, q) ==
    IF s = <<>> THEN <<>>
    ELSE LET x == s[Len(s)]
             sorted == SortBySimilarity(SubSeq(s, 1, Len(s) - 1), q)
             \* x goes after every element that is not strictly less similar
             keep == {i \in DOMAIN sorted : SimilarityLeq(q, x.embedding, sorted[i].embedding)}
             pos == IF keep = {} THEN 0 ELSE CHOOSE i \in keep : \A j \in keep : j <= i
         IN  SubSeq(sorted, 1, pos) \o <<x>> \o SubSeq(sorted, pos + 1, Len(sorted))

\* Lines 241-269 and 288-316: score, filter, sort, cut.
RankInProcess(fetched, query_embedding, thr, limit) ==
    LET qualifies(v) == dot(v.embedding, v.embedding) > 0
                          /\ SimilarityAtLeast(query_embedding, v.embedding, thr)
    IN  Take(SortBySimilarity(SelectSeq(fetched, qualifies), query_embedding), limit)

SearchOutcome(path, result) == [path |-> path, result |-> result]

search_vectors(store, query_embedding, thread_id, thr, limit, rpc_ok, gtv_ok, list_ok) ==
    IF thread_id = None THEN {SearchOutcome("no_thread", <<>>)}
    ELSE IF rpc_ok
    THEN {SearchOutcome("rpc", r)
          : r \in rpc_search_vectors(store, query_embedding, thread_id, thr, limit)}
    ELSE IF gtv_ok
    THEN {SearchOutcome("get_thread_vectors", RankInProcess(fetched, query_embedding, thr, limit))
          : fetched \in rpc_get_thread_vectors(store, thread_id, limit * 3)}
    ELSE IF list_ok
    THEN {SearchOutcome("list_vectors",
              RankInProcess(list_vectors(store, thread_id, LIST_VECTORS_LIMIT),
                            query_embedding, thr, limit))}
    ELSE {SearchOutcome("failed", <<>>)}

VecInit ==
    /\ vec_store = <<>>
    /\ vec_search = <<>>

\* A chunk is embedded and stored.
CreateVector ==
    /\ UNCHANGED vecOther
    /\ vec_search = <<>>
    /\ Len(vec_store) < MaxVectors
    /\ \E thread_id \in ThreadIds, embedding \in Embeddings :
          vec_store' = Append(vec_store,
              [vector_id |-> Len(vec_store) + 1, thread_id |-> thread_id,
               embedding |-> embedding])
    /\ UNCHANGED vec_search

SearchVectors ==
    /\ UNCHANGED vecOther
    /\ vec_search = <<>>
    /\ \E query_embedding \in QueryEmbeddings, thread_id \in {None, "t1"},
          thr \in Thresholds, limit \in 1..MaxLimit,
          rpc_ok \in BOOLEAN, gtv_ok \in BOOLEAN, list_ok \in BOOLEAN :
          \E o \in search_vectors(vec_store, query_embedding, thread_id, thr, limit,
                                  rpc_ok, gtv_ok, list_ok) :
             vec_search' = <<[query_embedding |-> query_embedding, thread_id |-> thread_id,
                              similarity_threshold |-> thr, limit |-> limit,
                              path |-> o.path, result |-> o.result]>>
    /\ UNCHANGED vec_store

VecNext ==
    \/ CreateVector
    \/ SearchVectors

\* C4: a result computed by an in-process fallback is one the search RPC
\* can return for the same store, query embedding, threshold and limit.
C4_FallbackEqualsRpc ==
    (vec_search # <<>> /\ vec_search[1].path \in {"get_thread_vectors", "list_vectors"})
       => vec_search[1].result \in
             rpc_search_vectors(vec_store, vec_search[1].query_embedding,
                                vec_search[1].thread_id,
                                vec_search[1].similarity_threshold, vec_search[1].limit)

\* C18: a list search_vectors returns holds only vectors of the thread
\* whose similarity to the query is at least the threshold, in descending
\* order of similarity, and at most limit of them.
C18_SearchResultRanked ==
    vec_search # <<>> =>
       LET call == vec_search[1]
           result == call.result
       IN  /\ Len(result) <= call.limit
           /\ \A i \in DOMAIN result :
                 /\ SimilarityAtLeast(call.query_embedding, result[i].embedding,
                                      call.similarity_threshold)
                 /\ result[i] \in ThreadRows(vec_store, call.thread_id)
           /\ \A i \in DOMAIN result : \A j \in DOMAIN result :
                 i < j => SimilarityLeq(call.query_embedding, result[j].embedding,
                                        result[i].embedding)

\* A fallback ranked two vectors of different similarity, the older one
\* first, and left a vector of the thread out for its similarity.
C18_Witness ==
    /\ vec_search # <<>>
    /\ vec_search[1].path = "list_vectors"
    /\ Len(vec_search[1].result) = 2
    /\ ~SimilarityLeq(vec_search[1].query_embedding, vec_search[1].result[1].embedding,
                      vec_search[1].result[2].embedding)
    /\ vec_search[1].result[1].vector_id < vec_search[1].result[2].vector_id
    /\ \E v \in ThreadRows(vec_store, vec_search[1].thread_id) :
          ~SimilarityAtLeast(vec_search[1].query_embedding, v.embedding,
                            vec_search[1].similarity_threshold)

(***************************************************************************)
(* The tool-use classifier (search indicator) and the search stage that    *)
(* consumes it.  A string is the sequence of its characters.  A dict with  *)
(* the keys tool, web_search, videos, web_scrap, error is a record whose   *)
(* fields are sequences of zero (key absent) or one (the value) element;   *)
(* a tool list is the set of its names.                                    *)
(***************************************************************************)
MaxQueryLen == 3

Chars == {"a", " "}

Queries == SeqsUpTo(Chars, MaxQueryLen)

\* str.strip()
RECURSIVE lstrip(_)
lstrip(s) == IF s # <<>> /\ Head(s) = " " THEN lstrip(Tail(s)) ELSE s

RECURSIVE rstrip(_)
rstrip(s) ==
    IF s # <<>> /\ s[Len(s)] = " " THEN rstrip(SubSeq(s, 1, Len(s) - 1)) ELSE s

strip(s) == rstrip(lstrip(s))

NonWhitespace(s) == Len(SelectSeq(s, LAMBDA c : c # " "))

Absent == <<>>

Dict(tool, web_search, videos, web_scrap, error) ==
    [tool |-> tool, web_search |-> web_search, videos |-> videos,
     web_scrap |-> web_scrap, error |-> error]

\* What the classifier model can answer under its response schema.
ToolLists ==
    {{}, {"web_search"}, {"video"}, {"web_scrap"}, {"web_search", "video", "web_scrap"}}

SearchStrings == {<<>>, <<"a", "a">>, <<"a", "a", "a">>}

UrlLists == {<<>>, <<"url">>}

Optional(S) == {Absent} \cup {<<x>> : x \in S}

ClassifierDicts ==
    {Dict(t, w, v, s, Absent) :
        t \in Optional(ToolLists), w \in Optional(SearchStrings),
        v \in Optional(UrlLists), s \in Optional(UrlLists)}

\* The stream parses to a dict, is not JSON, or the call raises.
ClassifierOutcomes ==
    {[kind |-> "json", result |-> r] : r \in ClassifierDicts}
    \cup {[kind |-> k, result |-> Dict(Absent, Absent, Absent, Absent, Absent)]
          : k \in {"invalid_json", "raises"}}

\* key in d and d[key] (truthiness of the value)
Truthy(field, empty) == field # Absent /\ field[1] # empty

\* d.get(key, default)
Get(field, default) == IF field = Absent THEN default ELSE field[1]

\* Copy the keys of result that normalized does not have yet (lines 196-198).
CopyRest(normalized, result) ==
    [k \in DOMAIN normalized |-> IF normalized[k] = Absent THEN result[k] ELSE normalized[k]]

\* A normalization that copies the classifier's dict as it is.
normalize_result_copy(result, query_text) ==
    [result EXCEPT !.tool = IF result.tool = Absent THEN <<{}>> ELSE @]

normalize_result(result, query_text) ==
    LET empty == Dict(Absent, Absent, Absent, Absent, Absent)
        has_tool == result.tool # Absent
        normalized ==
            IF Truthy(result.web_search, <<>>) /\ ~has_tool
            THEN [empty EXCEPT !.tool = <<{"web_search"}>>,
                               !.web_search = result.web_search]
            ELSE IF Truthy(result.videos, <<>>) /\ ~has_tool
            THEN [empty EXCEPT !.tool = <<{"video"}>>, !.videos = result.videos]
            ELSE IF Truthy(result.web_scrap, <<>>) /\ ~has_tool
            THEN [empty EXCEPT !.tool = <<{"web_scrap"}>>, !.web_scrap = result.web_scrap]
            ELSE IF Truthy(result.tool, {})
            THEN [empty EXCEPT
                    !.tool = result.tool,
                    !.web_search =
                        IF "web_search" \in result.tool[1] /\ result.web_search = Absent
                        THEN <<query_text>>
                        ELSE result.web_search,
                    !.videos =
                        IF "video" \in result.tool[1]
                        THEN <<Get(result.videos, <<>>)>> ELSE Absent,
                    !.web_scrap =
                        IF "web_scrap" \in result.tool[1]
                        THEN <<Get(result.web_scrap, <<>>)>> ELSE Absent]
            ELSE IF Truthy(result.web_search, <<>>)
            THEN [empty EXCEPT
                    !.tool = IF has_tool THEN <<result.tool[1] \cup {"web_search"}>>
                             ELSE <<{"web_search"}>>,
                    !.web_search = result.web_search]
            ELSE [result EXCEPT !.tool = IF has_tool THEN @ ELSE <<{}>>]
    IN  CopyRest(normalized, result)

create_default_web_search(query_text) ==
    Dict(<<{"web_search"}>>, <<query_text>>, Absent, Absent,
         <<"Created default web search due to error">>)

\* SearchIndicator.analyze_query: one call of the classifier model.
analyze_query(query_text, outcome) ==
    IF outcome.kind = "json" THEN normalize_result(outcome.result, query_text)
    ELSE create_default_web_search(query_text)

\* A detect_search_needs that asks the classifier model whatever the query.
detect_search_needs_always(query_text, outcome) ==
    [bundle |-> analyze_query(query_text, outcome), llm_calls |-> 1]

\* detect_search_needs: the bundle and the number of classifier model calls.
detect_search_needs(query_text, outcome) ==
    IF query_text = <<>> \/ Len(strip(query_text)) < 3
    THEN [bundle |-> Dict(<<{}>>, Absent, Absent, Absent, Absent), llm_calls |-> 0]
    ELSE [bundle |-> analyze_query(query_text, outcome), llm_calls |-> 1]

SearchCalls(llm, web, transcript, scrape) ==
    [llm_calls |-> llm, web_search_calls |-> web, transcript_calls |-> transcript,
     scrape_calls |-> scrape]

\* unified_search(query): the external calls it makes.  With tool_raises the
\* first tool call raises and the function returns its error text.
unified_search(query, outcome, tool_raises) ==
    LET d == detect_search_needs(query, outcome)
        search_results == d.bundle
        tools_to_use == Get(search_results.tool, {})
        web == Truthy(search_results.web_search, <<>>) \/ "web_search" \in tools_to_use
        video_urls ==
            IF "video" \in tools_to_use \/ Truthy(search_results.videos, <<>>)
            THEN Get(search_results.videos, <<>>) ELSE <<>>
        urls ==
            IF "web_scrap" \in tools_to_use \/ Truthy(search_results.web_scrap, <<>>)
            THEN Get(search_results.web_scrap, <<>>) ELSE <<>>
        performed_search == web \/ video_urls # <<>> \/ urls # <<>>
        fallback == ~performed_search /\ query # <<>>
    IN  IF ~tool_raises
        THEN SearchCalls(d.llm_calls, (IF web THEN 1 ELSE 0) + (IF fallback THEN 1 ELSE 0),
                         Len(video_urls), Len(urls))
        ELSE IF web \/ fallback THEN SearchCalls(d.llm_calls, 1, 0, 0)
        ELSE IF video_urls # <<>> THEN SearchCalls(d.llm_calls, 0, 1, 0)
        ELSE IF urls # <<>> THEN SearchCalls(d.llm_calls, 0, 0, 1)
        ELSE SearchCalls(d.llm_calls, 0, 0, 0)

\* search_needs is truthy in one of its four fields (the condition that
\* guards the call of unified_search).
SearchNeeded(search_needs) ==
    \/ Truthy(search_needs.tool, {})
    \/ Truthy(search_needs.web_search, <<>>)
    \/ Truthy(search_needs.videos, <<>>)
    \/ Truthy(search_needs.web_scrap, <<>>)

\* Lines 385-403 of deepseek_chat.py: what the search stage adds to
\* query_context_text.  The text of unified_search is used as results when
\* it is longer than 100 characters and does not hold "No results found";
\* the text that unified_search returns for an exception of a tool ("An
\* error occurred during search: ...") passes that test when it is long.
\* A note is written only "if query_context_text".
search_stage_appends(has_query_context, enrichment, long_text) ==
    IF enrichment = "results" \/ (enrichment = "failed" /\ long_text)
    THEN "search_results"
    ELSE IF has_query_context THEN "note" ELSE "nothing"

ClsInit == cls_last = <<>>

\* The search stage of a completion request starts: detect_search_needs(query_text).
DetectSearchNeeds ==
    /\ UNCHANGED clsOther
    /\ cls_last = <<>>
    /\ \E query_text \in Queries, outcome \in ClassifierOutcomes,
          has_query_context \in BOOLEAN :
          LET d == detect_search_needs(query_text, outcome)
          IN  cls_last' = <<[stage |-> "classified", query_text |-> query_text,
                             bundle |-> d.bundle, searched |-> FALSE,
                             calls |-> SearchCalls(d.llm_calls, 0, 0, 0),
                             has_query_context |-> has_query_context,
                             enrichment |-> "not_run", appended |-> "nothing"]>>

\* The stage goes on: unified_search(search_query) when the bundle asks for it.
UnifiedSearch ==
    /\ UNCHANGED clsOther
    /\ cls_last # <<>>
    /\ cls_last[1].stage = "classified"
    /\ LET search_needs == cls_last[1].bundle
           search_query == Get(search_needs.web_search, cls_last[1].query_text)
       IN  IF SearchNeeded(search_needs)
           THEN \E outcome \in ClassifierOutcomes, tool_raises \in BOOLEAN,
                   found \in BOOLEAN, long_text \in BOOLEAN :
                   LET u == unified_search(search_query, outcome, tool_raises)
                       enrichment == IF tool_raises THEN "failed"
                                     ELSE IF found THEN "results" ELSE "no_results"
                   IN  /\ tool_raises => found
                       /\ ~tool_raises => long_text
                       /\ cls_last' =
                            <<[cls_last[1] EXCEPT
                                 !.stage = "done", !.searched = TRUE,
                                 !.calls = SearchCalls(@.llm_calls + u.llm_calls,
                                                       u.web_search_calls,
                                                       u.transcript_calls, u.scrape_calls),
                                 !.enrichment = enrichment,
                                 !.appended =
                                    search_stage_appends(cls_last[1].has_query_context,
                                                         enrichment, long_text)]>>
           ELSE cls_last' = <<[cls_last[1] EXCEPT !.stage = "done"]>>

\* The request leaves the search stage.
LeaveSearchStage ==
    /\ UNCHANGED clsOther
    /\ cls_last # <<>>
    /\ cls_last[1].stage = "done"
    /\ cls_last' = <<>>

ClsNext ==
    \/ DetectSearchNeeds
    \/ UnifiedSearch
    \/ LeaveSearchStage

NamedTools == {"web_search", "video", "web_scrap"}

\* The argument field of a tool in a bundle, and the empty value of that field.
ToolArgument(bundle, tool) ==
    IF tool = "web_search" THEN bundle.web_search
    ELSE IF tool = "video" THEN bundle.videos
    ELSE bundle.web_scrap

\* C8 as stated: the bundle has an empty tool list, or the argument field of
\* every tool it names is present and non-empty.
C8_ArgumentsPopulated ==
    cls_last # <<>> =>
       \/ cls_last[1].bundle.tool = <<{}>>
       \/ \A tool \in NamedTools \cap cls_last[1].bundle.tool[1] :
             Truthy(ToolArgument(cls_last[1].bundle, tool), <<>>)

\* C8: the bundle has an empty tool list, or the argument field of every
\* tool it names is present in the bundle (it may be empty).
C8_ArgumentsPresent ==
    cls_last # <<>> =>
       /\ cls_last[1].bundle.tool # Absent
       /\ \A tool \in NamedTools \cap cls_last[1].bundle.tool[1] :
             ToolArgument(cls_last[1].bundle, tool) # Absent

C8_Witness ==
    /\ cls_last # <<>>
    /\ cls_last[1].calls.llm_calls > 0
    /\ "video" \in cls_last[1].bundle.tool[1]
    /\ cls_last[1].bundle.videos = <<<<>>>>

ShortCircuited ==
    /\ cls_last[1].bundle.tool = <<{}>>
    /\ cls_last[1].calls = SearchCalls(0, 0, 0, 0)

\* C9 as stated: a query with fewer than 3 non-whitespace characters gets an
\* empty tool list with no classifier, web search, transcript or scrape call.
C9_ShortNonWhitespace ==
    (cls_last # <<>> /\ NonWhitespace(cls_last[1].query_text) < 3) => ShortCircuited

\* C9: a query that is shorter than 3 characters once leading and trailing
\* whitespace is stripped gets an empty tool list with no classifier, web
\* search, transcript or scrape call.
C9_ShortStripped ==
    (cls_last # <<>> /\ Len(strip(cls_last[1].query_text)) < 3) => ShortCircuited

C9_Witness ==
    /\ cls_last # <<>>
    /\ cls_last[1].stage = "done"
    /\ cls_last[1].query_text # <<>>
    /\ Len(strip(cls_last[1].query_text)) < 3
    /\ Len(cls_last[1].query_text) >= 3

\* C32: when the classifier recommended tools and the enrichment came
\* back without results or failed, the search stage has appended an
\* explanatory note to query_context.
C32_NoteOnFailedEnrichment ==
    (cls_last # <<>> /\ cls_last[1].enrichment \in {"no_results", "failed"})
       => cls_last[1].appended = "note"

(***************************************************************************)
(* The completion handlers (create_deepseek_chat_completion and            *)
(* create_deepseek_reasoner_completion have the same stages).  A request   *)
(* walks through the stages one step at a time; every call to the          *)
(* persistence backend, the embedder and the LLM can succeed or fail.      *)
(* Ids are naturals handed out by the tables; thread id 0 is "no id".      *)
(***************************************************************************)
MaxRequests == 2

MaxMessages == 2

NoThread == 0

UnknownThread == 99

MessageKinds == {"user", "assistant", "not_a_dict"}

\* An entry of payload["messages"].
MessageItems ==
    {[role |-> k, attachments |-> a] : k \in {"user", "assistant"}, a \in BOOLEAN}
    \cup {[role |-> "not_a_dict", attachments |-> FALSE]}

Payloads ==
    [is_dict : BOOLEAN, thread_id : {NoThread, 1, UnknownThread},
     messages : SeqsUpTo(MessageItems, MaxMessages)]

\* The providers and models a payload names.  "openai" has tokenizers and is
\* named in the route as a provider to come; "nonesuch" is known nowhere.
Providers == {"deepseek", "openai", "nonesuch"}

Models == {"deepseek-chat", "deepseek-reasoner", "gpt-4"}

Routes == Providers \X Models

NotYetImplementedProviders == {"openai"}

NoHandler == "none"

\* A route that sends every request to the chat handler.
route_everything(is_dict, provider, model) ==
    [status |-> 0, handler |-> "create_deepseek_chat_completion"]

\* create_chat_completion, lines 77-106: the handler the request is routed
\* to, or the status of the HTTPException raised.  payload.get on a body
\* that is not a JSON object raises AttributeError, which nothing catches.
route(is_dict, provider, model) ==
    IF ~is_dict THEN [status |-> 500, handler |-> NoHandler]
    ELSE IF provider = "deepseek"
    THEN IF model = "deepseek-chat"
         THEN [status |-> 0, handler |-> "create_deepseek_chat_completion"]
         ELSE IF model = "deepseek-reasoner"
         THEN [status |-> 0, handler |-> "create_deepseek_reasoner_completion"]
         ELSE [status |-> 400, handler |-> NoHandler]
    ELSE [status |-> 400, handler |-> NoHandler]

NoResponse == <<>>

\* The body of an HTTPException.
HttpErrorResponse ==
    <<[error |-> "detail", content |-> "none", thread_id |-> NoThread, message_id |-> "none",
       keys |-> {"detail"}]>>

\* An error envelope that names the thread of the request as well.
error_response_with_thread(error) ==
    <<[error |-> error, content |-> "none", thread_id |-> rq_thread, message_id |-> "none",
       keys |-> {"error", "thread_id"}]>>

\* return {"error": ...}: the keys of the dictionary are kept with it.
ErrorResponse(error) ==
    <<[error |-> error, content |-> "none", thread_id |-> NoThread, message_id |-> "none",
       keys |-> {"error"}]>>

\* The catch-all answer: an error together with an apology as content.
UnexpectedErrorResponse ==
    <<[error |-> "unexpected", content |-> "placeholder", thread_id |-> NoThread,
       message_id |-> "none", keys |-> {"error", "content"}]>>

CompletionResponse(thread_id, message_id, content) ==
    <<[error |-> "none", content |-> content, thread_id |-> thread_id,
       message_id |-> message_id,
       keys |-> {"thread_id", "message_id", "content", "tokens_spent", "cost"}]>>

\* get_thread(thread_id): "found", or it raises because the row is missing
\* ("not_found") or because the backend did not answer 200 ("backend_error").
get_thread(ts, thread_id, backend_ok) ==
    IF ~backend_ok THEN "backend_error"
    ELSE IF thread_id \in ts THEN "found" ELSE "not_found"

\* handle_thread_management: the thread to use (NoThread when it raises)
\* and the threads table afterwards.
handle_thread_management(ts, thread_id, get_ok, create_ok) ==
    IF thread_id # NoThread /\ get_thread(ts, thread_id, get_ok) = "found"
    THEN [thread_id |-> thread_id, threads |-> ts, created |-> FALSE]
    ELSE IF create_ok
    THEN [thread_id |-> Cardinality(ts) + 1, threads |-> ts \cup {Cardinality(ts) + 1},
          created |-> TRUE]
    ELSE [thread_id |-> NoThread, threads |-> ts, created |-> FALSE]

\* A lookup of the user query that never finds one.
no_user_query(created_messages) == <<>>

\* get_most_recent_user_query: the last created message of role user, as a
\* sequence of zero or one.
RECURSIVE get_most_recent_user_query(_)
get_most_recent_user_query(created_messages) ==
    IF created_messages = <<>> THEN <<>>
    ELSE IF created_messages[Len(created_messages)].role = "user"
    THEN <<created_messages[Len(created_messages)]>>
    ELSE get_most_recent_user_query(SubSeq(created_messages, 1, Len(created_messages) - 1))

\* No request is in flight.
ReqIdle ==
    /\ rq_pc = "idle"
    /\ rq_payload = [is_dict |-> TRUE, thread_id |-> NoThread, messages |-> <<>>]
    /\ rq_thread = NoThread
    /\ rq_idx = 0
    /\ rq_created = <<>>
    /\ rq_content = "none"
    /\ rq_failed = {}
    /\ rq_persisted = [threads |-> {}, messages |-> {}, vectors |-> {}, existed |-> FALSE]
    /\ rq_response = NoResponse
    /\ rq_route = <<"deepseek", "deepseek-chat">>
    /\ rq_status = 0
    /\ rq_trace = <<>>
    /\ rq_calls = <<>>

ReqInit ==
    /\ threads = {}
    /\ messages = {}
    /\ vectors = {}
    /\ ReqIdle
    /\ rq_done = 0

storeVars == <<threads, messages, vectors>>

\* POST /chat/completions reaches the handler.
ReceiveRequest ==
    /\ UNCHANGED reqOther
    /\ rq_pc = "idle"
    /\ rq_done < MaxRequests
    /\ \E payload \in Payloads :
          /\ rq_payload' = payload
          /\ rq_persisted' = [threads |-> {}, messages |-> {}, vectors |-> {},
                              existed |-> payload.thread_id \in threads]
    /\ \E pm \in Routes : rq_route' = pm
    /\ rq_pc' = "route"
    /\ rq_thread' = NoThread
    /\ rq_idx' = 0
    /\ rq_created' = <<>>
    /\ rq_content' = "none"
    /\ rq_failed' = {}
    /\ rq_response' = NoResponse
    /\ rq_status' = 0
    /\ rq_trace' = <<>>
    /\ rq_calls' = <<>>
    /\ UNCHANGED <<storeVars, rq_done>>

\* return JSONResponse(result): the handler's dict with the default status.
Respond(response) ==
    /\ rq_response' = response
    /\ rq_status' = 200
    /\ rq_pc' = "done"

\* create_chat_completion, lines 77-106.
RouteRequest ==
    /\ UNCHANGED reqOther
    /\ rq_pc = "route"
    /\ LET r == route(rq_payload.is_dict, rq_route[1], rq_route[2])
       IN  IF r.handler = NoHandler
           THEN /\ rq_response' = HttpErrorResponse
                /\ rq_status' = r.status
                /\ rq_pc' = "done"
           ELSE rq_pc' = "validate" /\ UNCHANGED <<rq_response, rq_status>>
    /\ UNCHANGED <<storeVars, rq_payload, rq_thread, rq_idx, rq_created, rq_content,
                   rq_failed, rq_persisted, rq_done, rq_route, rq_trace, rq_calls>>

\* Lines 160-171: payload.get(...) and the check for messages.
ValidatePayload ==
    /\ UNCHANGED reqOther
    /\ rq_pc = "validate"
    /\ IF ~rq_payload.is_dict THEN Respond(UnexpectedErrorResponse)
       ELSE IF rq_payload.messages = <<>> THEN Respond(ErrorResponse("no_messages"))
       ELSE rq_pc' = "thread" /\ UNCHANGED <<rq_response, rq_status>>
    /\ UNCHANGED <<storeVars, rq_payload, rq_thread, rq_idx, rq_created, rq_content,
                   rq_failed, rq_persisted, rq_done, rq_route, rq_trace, rq_calls>>

\* Lines 175-181.
HandleThreadManagement ==
    /\ UNCHANGED reqOther
    /\ rq_pc = "thread"
    /\ \E get_ok \in BOOLEAN, create_ok \in BOOLEAN :
          LET r == handle_thread_management(threads, rq_payload.thread_id, get_ok, create_ok)
          IN  /\ threads' = r.threads
              /\ rq_thread' = r.thread_id
              /\ rq_persisted' =
                    [rq_persisted EXCEPT
                       !.threads = IF r.created THEN {r.thread_id} ELSE @]
              /\ IF r.thread_id = NoThread
                 THEN Respond(ErrorResponse("thread"))
                 ELSE rq_pc' = "messages" /\ UNCHANGED <<rq_response, rq_status>>
    /\ UNCHANGED <<messages, vectors, rq_payload, rq_idx, rq_created, rq_content,
                   rq_failed, rq_done, rq_route, rq_trace, rq_calls>>

NewMessage(role) ==
    [message_id |-> Cardinality(messages) + 1, thread_id |-> rq_thread, role |-> role]

NewVector(namespace) ==
    [vector_id |-> Cardinality(vectors) + 1, thread_id |-> rq_thread,
     namespace |-> namespace]

\* A loop that walks the payload's messages from the last to the first.
iteration_order_reversed(msgs, pass) == Len(msgs) - pass + 1

\* for message_data in messages: the payload index visited by a pass.
iteration_order(msgs, pass) == pass

\* A loop that is left after its first pass.
messages_exhausted_early(msgs, passes) == passes >= 1 \/ passes = Len(msgs)

\* The loop is over, and created_messages returned, after one pass per entry.
messages_exhausted(msgs, passes) == passes = Len(msgs)

TraceEvent(op, index, message_id) ==
    [op |-> op, index |-> index, message_id |-> message_id]

\* One pass of the loop of process_incoming_messages.  create_message can
\* fail before the row exists ("create_fails") or, the row created, while
\* files are attached ("attach_fails"); both are logged and skipped.  The
\* vectorization of attachments swallows its own failures.
ProcessIncomingMessage ==
    /\ UNCHANGED reqOther
    /\ rq_pc = "messages"
    /\ ~messages_exhausted(rq_payload.messages, rq_idx)
    /\ rq_idx < Len(rq_payload.messages)
    /\ rq_idx' = rq_idx + 1
    /\ LET index == iteration_order(rq_payload.messages, rq_idx + 1)
           message_data == rq_payload.messages[index]
       IN  IF message_data.role = "not_a_dict"
           THEN /\ Respond(ErrorResponse("messages"))
                /\ rq_failed' = rq_failed \cup {"malformed_message"}
                /\ UNCHANGED <<messages, vectors, rq_created, rq_persisted, rq_trace>>
           ELSE \E outcome \in {"created", "create_fails", "attach_fails"},
                   vectorized \in BOOLEAN :
                   /\ outcome = "attach_fails" => message_data.attachments
                   /\ ~vectorized => (message_data.attachments /\ outcome = "created")
                   /\ UNCHANGED <<rq_pc, rq_response, rq_status>>
                   /\ messages' = IF outcome = "create_fails" THEN messages
                                  ELSE messages \cup {NewMessage(message_data.role)}
                   /\ rq_created' = IF outcome = "created"
                                    THEN Append(rq_created, NewMessage(message_data.role))
                                    ELSE rq_created
                   /\ vectors' = IF outcome = "created" /\ message_data.attachments /\ vectorized
                                 THEN vectors \cup {NewVector("files")}
                                 ELSE vectors
                   /\ rq_failed' = rq_failed
                         \cup (IF outcome = "created" THEN {} ELSE {"create_message"})
                         \cup (IF vectorized THEN {} ELSE {"vectorize"})
                   /\ rq_persisted' =
                         [rq_persisted EXCEPT
                            !.messages = @ \cup (messages' \ messages),
                            !.vectors = @ \cup (vectors' \ vectors)]
                   /\ rq_trace' = rq_trace
                         \o <<TraceEvent("create", index,
                                 IF outcome = "create_fails" THEN 0
                                 ELSE NewMessage(message_data.role).message_id)>>
                         \o (IF outcome = "created" /\ message_data.attachments
                             THEN <<TraceEvent("vectorized", index, 0)>> ELSE <<>>)
    /\ UNCHANGED <<threads, rq_payload, rq_thread, rq_content, rq_done, rq_route, rq_calls>>

\* Lines 199-203: the query is looked up among the created messages.
IdentifyQuery ==
    /\ UNCHANGED reqOther
    /\ rq_pc = "messages"
    /\ messages_exhausted(rq_payload.messages, rq_idx)
    /\ IF get_most_recent_user_query(rq_created) = <<>>
       THEN Respond(ErrorResponse("no_user_query"))
       ELSE rq_pc' = "context" /\ UNCHANGED <<rq_response, rq_status>>
    /\ UNCHANGED <<storeVars, rq_payload, rq_thread, rq_idx, rq_created, rq_content,
                   rq_failed, rq_persisted, rq_done, rq_route, rq_trace, rq_calls>>

\* completions.py, lines 17-18: the module each handler is imported from.
handler_module(handler) ==
    IF handler = "create_deepseek_chat_completion" THEN "deepseek_chat"
    ELSE "deepseek_reasoner"

\* Whether the context stage of a handler calls detect_search_needs.  Its
\* only caller is the create_deepseek_reasoner_completion that module
\* deepseek_chat defines (line 371); the handler of the same name in module
\* deepseek_reasoner (lines 186-195, 717-776) and the chat handler
\* (lines 207-223) go from the query straight to retrieval.
runs_search_indicator(module, handler) ==
    module = "deepseek_chat" /\ handler = "create_deepseek_reasoner_completion"

\* The calls the context stage of the routed handler makes, in order.
context_stage_calls(handler) ==
    (IF runs_search_indicator(handler_module(handler), handler)
     THEN <<"detect_search_needs">> ELSE <<>>)
    \o <<"retrieve_relevant_context">>

\* Lines 207-223: a failure falls back to the bare query text.
PrepareContext ==
    /\ UNCHANGED reqOther
    /\ rq_pc = "context"
    /\ \E ok \in BOOLEAN :
          rq_failed' = IF ok THEN rq_failed ELSE rq_failed \cup {"context"}
    /\ rq_calls' = rq_calls
          \o context_stage_calls(route(rq_payload.is_dict, rq_route[1], rq_route[2]).handler)
    /\ rq_pc' = "llm"
    /\ UNCHANGED <<storeVars, rq_payload, rq_thread, rq_idx, rq_created, rq_content,
                   rq_persisted, rq_response, rq_done, rq_route, rq_status, rq_trace>>

\* Lines 226-237: the generator answers, returns its own apology, or raises.
GenerateResponse ==
    /\ UNCHANGED reqOther
    /\ rq_pc = "llm"
    /\ \E outcome \in {"reply", "apology", "raises"} :
          /\ rq_content' = IF outcome = "reply" THEN "reply" ELSE "placeholder"
          /\ rq_failed' = IF outcome = "reply" THEN rq_failed ELSE rq_failed \cup {"llm"}
    /\ rq_pc' = "store"
    /\ UNCHANGED <<storeVars, rq_payload, rq_thread, rq_idx, rq_created, rq_persisted,
                   rq_response, rq_done, rq_route, rq_status, rq_trace, rq_calls>>

\* Lines 239-268: store_assistant_response, then the response envelope.
StoreAssistantResponse ==
    /\ UNCHANGED reqOther
    /\ rq_pc = "store"
    /\ \E outcome \in {"stored_with_vector", "stored", "vector_fails", "fails"} :
          /\ messages' = IF outcome = "fails" THEN messages
                         ELSE messages \cup {NewMessage("assistant")}
          /\ vectors' = IF outcome = "stored_with_vector"
                        THEN vectors \cup {NewVector("messages")} ELSE vectors
          /\ rq_failed' = rq_failed
                \cup (IF outcome = "fails" THEN {"store"} ELSE {})
                \cup (IF outcome = "vector_fails" THEN {"vectorize"} ELSE {})
          /\ rq_persisted' =
                [rq_persisted EXCEPT
                   !.messages = @ \cup (messages' \ messages),
                   !.vectors = @ \cup (vectors' \ vectors)]
          /\ Respond(CompletionResponse(rq_thread,
                        IF outcome = "fails" THEN "temp" ELSE "stored", rq_content))
    /\ UNCHANGED <<threads, rq_payload, rq_thread, rq_idx, rq_created, rq_content, rq_done,
                   rq_route, rq_trace, rq_calls>>

\* The response is sent.
FinishRequest ==
    /\ UNCHANGED reqOther
    /\ rq_pc = "done"
    /\ rq_pc' = "idle"
    /\ rq_payload' = [is_dict |-> TRUE, thread_id |-> NoThread, messages |-> <<>>]
    /\ rq_thread' = NoThread
    /\ rq_idx' = 0
    /\ rq_created' = <<>>
    /\ rq_content' = "none"
    /\ rq_failed' = {}
    /\ rq_persisted' = [threads |-> {}, messages |-> {}, vectors |-> {}, existed |-> FALSE]
    /\ rq_response' = NoResponse
    /\ rq_route' = <<"deepseek", "deepseek-chat">>
    /\ rq_status' = 0
    /\ rq_trace' = <<>>
    /\ rq_calls' = <<>>
    /\ rq_done' = rq_done + 1
    /\ UNCHANGED storeVars

ReqNext ==
    \/ ReceiveRequest
    \/ RouteRequest
    \/ ValidatePayload
    \/ HandleThreadManagement
    \/ ProcessIncomingMessage
    \/ IdentifyQuery
    \/ PrepareContext
    \/ GenerateResponse
    \/ StoreAssistantResponse
    \/ FinishRequest

\* The request is answered with {thread_id, message_id, content, ...}.
SuccessResponse == rq_pc = "done" /\ rq_response[1].error = "none"

\* C22: a request answered with a success response has stored the reply
\* as an assistant message of its thread and a vector of the reply in
\* namespace messages (the only vectors written there are those of
\* store_assistant_response, with metadata role = assistant).
C22_ReplyPersisted ==
    SuccessResponse =>
       /\ \E m \in rq_persisted.messages :
             m.role = "assistant" /\ m.thread_id = rq_response[1].thread_id
       /\ \E v \in rq_persisted.vectors :
             v.namespace = "messages" /\ v.thread_id = rq_response[1].thread_id

\* C36: the message_id of a success response is that of an assistant
\* message the request stored in the thread the response names.
C36_MessageIdPersisted ==
    SuccessResponse =>
       /\ rq_response[1].message_id = "stored"
       /\ \E m \in rq_persisted.messages \cap messages :
             m.role = "assistant" /\ m.thread_id = rq_response[1].thread_id

\* The request was handed to a completion handler and the handler is over.
HandlerReturned ==
    /\ rq_pc = "done"
    /\ route(rq_payload.is_dict, rq_route[1], rq_route[2]).handler # NoHandler

\* C38: a completion handler ends with a dictionary, whatever the payload
\* and whichever downstream call failed: an error envelope, which has the
\* key error and not the key thread_id, or a success envelope, whose keys
\* are thread_id, message_id, content, tokens_spent and cost.
C38_EnvelopeShape ==
    HandlerReturned =>
       /\ rq_response # NoResponse
       /\ LET r == rq_response[1]
          IN  \/ /\ "error" \in r.keys
                 /\ "thread_id" \notin r.keys
                 /\ r.error # "none"
                 /\ r.thread_id = NoThread
              \/ /\ r.keys = {"thread_id", "message_id", "content", "tokens_spent", "cost"}
                 /\ r.error = "none"
                 /\ r.thread_id = rq_thread
                 /\ rq_thread # NoThread

\* An error envelope returned after the thread of the request exists.
C38_Witness ==
    /\ HandlerReturned
    /\ rq_thread # NoThread
    /\ rq_response[1].error \in {"messages", "no_user_query"}

ReasonerMode == rq_route = <<"deepseek", "deepseek-reasoner">>

\* C24: a request routed in reasoner mode whose context stage is over has
\* run the tool-use classifier on the query before it retrieved context.
C24_ClassifierBeforeRetrieval ==
    (ReasonerMode /\ rq_pc \in {"llm", "store"}) =>
       \E p, q \in DOMAIN rq_calls :
          /\ p < q
          /\ rq_calls[p] = "detect_search_needs"
          /\ rq_calls[q] = "retrieve_relevant_context"

\* The stages whose next step is a requests call to a remote service: the
\* persistence gateway, the embedder, the vector RPC, the LLM.
RemoteStages == {"thread", "messages", "context", "llm", "store"}

\* The remote service never answers.  The calls are made without a timeout
\* argument, so the call never returns and the handler stays where it is.
RemoteCallNeverReturns ==
    /\ UNCHANGED reqOther
    /\ rq_pc \in RemoteStages
    /\ rq_pc' = "blocked"
    /\ UNCHANGED <<storeVars, rq_payload, rq_thread, rq_idx, rq_created, rq_content,
                   rq_failed, rq_persisted, rq_response, rq_done, rq_route, rq_status,
                   rq_trace, rq_calls>>

ReqWaitNext == ReqNext \/ RemoteCallNeverReturns

\* C23: a request that reached the route is eventually answered.
C23_EventuallyResponds == (rq_pc = "route") ~> (rq_pc = "done")

\* The request has its thread and one of its later stages has failed.
FailedAfterThread == rq_pc = "done" /\ rq_thread # NoThread /\ rq_failed # {}

\* What the request persisted is in the store.
NothingRolledBack ==
    /\ rq_persisted.threads \subseteq threads
    /\ rq_persisted.messages \subseteq messages
    /\ rq_persisted.vectors \subseteq vectors
    /\ rq_thread # NoThread => rq_thread \in threads

\* C5 as stated: a request that fails after its thread is resolved returns a
\* structured error, and what it persisted stays in the store.
C5_ErrorAfterThread ==
    /\ NothingRolledBack
    /\ FailedAfterThread => rq_response[1].error # "none"

\* C5: what a request persisted stays in the store; a request that fails
\* after its thread is resolved returns a structured error only when
\* message processing raised or no user message was created, and otherwise
\* a normal response for its thread, with a placeholder as content exactly
\* when the LLM stage failed and a temporary message id exactly when the
\* reply could not be stored.
C5_ErrorOrPlaceholder ==
    /\ NothingRolledBack
    /\ FailedAfterThread =>
          LET r == rq_response[1]
          IN  IF r.error # "none"
              THEN /\ r.content = "none"
                   /\ \/ r.error = "messages" /\ "malformed_message" \in rq_failed
                      \/ /\ r.error = "no_user_query"
                         /\ \A i \in DOMAIN rq_created : rq_created[i].role # "user"
              ELSE /\ r.thread_id = rq_thread
                   /\ (r.content = "placeholder") <=> ("llm" \in rq_failed)
                   /\ (r.message_id = "temp") <=> ("store" \in rq_failed)
                   /\ r.content # "none"

C5_Witness ==
    /\ FailedAfterThread
    /\ "llm" \in rq_failed
    /\ rq_persisted.messages # {}
    /\ rq_response[1].error = "none"

LaterStageFailures == {"create_message", "vectorize", "context", "llm", "store"}

\* C6: a request in which a stage after thread management failed (message
\* persistence, vectorization, context, LLM, storing the reply) does not end
\* with a bare error: its response carries a reply or a placeholder.
C6_LaterFailuresNotFatal ==
    (rq_pc = "done" /\ rq_failed \cap LaterStageFailures # {})
       => rq_response[1].content # "none"

\* C7: a request creates a thread only when it carries no thread_id or its
\* thread_id is not in the store; when its thread_id is in the store, that
\* thread is the one every message and vector of the request is written to.
C7_ThreadCreatedOnlyWhenMissing ==
    /\ rq_persisted.threads # {}
          => (rq_payload.thread_id = NoThread \/ ~rq_persisted.existed)
    /\ (rq_persisted.existed /\ rq_thread # NoThread)
          => /\ rq_thread = rq_payload.thread_id
             /\ \A m \in rq_persisted.messages : m.thread_id = rq_payload.thread_id
             /\ \A v \in rq_persisted.vectors : v.thread_id = rq_payload.thread_id

\* C11: within one request the creates are issued in payload order, the
\* vectorization of a message's attachments is over before the create of
\* any later message, and the messages persisted get ids in payload order.
C11_PersistedInPayloadOrder ==
    \A p \in DOMAIN rq_trace : \A q \in DOMAIN rq_trace :
       p < q =>
          /\ rq_trace[p].index <= rq_trace[q].index
          /\ rq_trace[p].index = rq_trace[q].index
                => (rq_trace[p].op = "create" /\ rq_trace[q].op = "vectorized")
          /\ (rq_trace[p].message_id # 0 /\ rq_trace[q].message_id # 0)
                => /\ rq_trace[p].message_id < rq_trace[q].message_id
                   /\ \E m \in messages : m.message_id = rq_trace[p].message_id
                   /\ \E m \in messages : m.message_id = rq_trace[q].message_id

C11_Witness ==
    /\ \E p \in DOMAIN rq_trace :
          rq_trace[p].op = "vectorized" /\ rq_trace[p].index = 1
    /\ \E q \in DOMAIN rq_trace :
          /\ rq_trace[q].op = "create"
          /\ rq_trace[q].index = 2
          /\ rq_trace[q].message_id # 0
    /\ \E q \in DOMAIN rq_trace :
          /\ rq_trace[q].op = "create"
          /\ rq_trace[q].index = 1
          /\ rq_trace[q].message_id # 0

\* The payload index of the last entry of role user, 0 when there is none.
RECURSIVE LastUserIndex(_)
LastUserIndex(msgs) ==
    IF msgs = <<>> THEN 0
    ELSE IF msgs[Len(msgs)].role = "user" THEN Len(msgs)
    ELSE LastUserIndex(SubSeq(msgs, 1, Len(msgs) - 1))

\* The payload index of the message the handler uses as the query.
QueryIndex ==
    LET found == get_most_recent_user_query(rq_created)
    IN  IF found = <<>> THEN 0
        ELSE rq_trace[CHOOSE p \in DOMAIN rq_trace :
                        rq_trace[p].op = "create"
                        /\ rq_trace[p].message_id = found[1].message_id].index

QueryIdentified == rq_pc \in {"context", "llm", "store"}

\* C12: the query message used for retrieval and for the LLM call is the
\* last entry of role user of the payload.
C12_QueryIsLastUser ==
    QueryIdentified => QueryIndex = LastUserIndex(rq_payload.messages)

\* The vectors a retrieval of the request's thread in namespace files sees.
VisibleToRetrieval ==
    {v \in vectors : v.thread_id = rq_thread /\ v.namespace = "files"}

\* C13: when the retrieval step is about to search, every entry of the
\* payload has been processed, the vectorization of every message created
\* with attachments is over, and every vector the request stored is in the
\* store under the thread and namespace the retrieval searches.
C13_IngestionBeforeRetrieval ==
    rq_pc = "context" =>
       /\ rq_idx = Len(rq_payload.messages)
       /\ \A i \in DOMAIN rq_payload.messages :
             \E p \in DOMAIN rq_trace : rq_trace[p].op = "create" /\ rq_trace[p].index = i
       /\ \A i \in DOMAIN rq_created :
             LET p == CHOOSE p \in DOMAIN rq_trace :
                         rq_trace[p].message_id = rq_created[i].message_id
             IN  rq_payload.messages[rq_trace[p].index].attachments
                    => \E q \in DOMAIN rq_trace :
                          /\ q > p
                          /\ rq_trace[q].op = "vectorized"
                          /\ rq_trace[q].index = rq_trace[p].index
       /\ rq_persisted.vectors \subseteq VisibleToRetrieval

C13_Witness ==
    /\ rq_pc = "context"
    /\ Cardinality(rq_persisted.vectors) = 2
    /\ Len(rq_payload.messages) = 2

RegisteredRoutes ==
    {<<"deepseek", "deepseek-chat">>, <<"deepseek", "deepseek-reasoner">>}

HandlerStages == {"validate", "thread", "messages", "context", "llm", "store"}

\* C19: a body naming an unknown (provider, model) is answered 400, one
\* naming a provider that is known but not implemented is answered 501, and
\* only a registered pair reaches a completion handler.
C19_RoutingStatus ==
    /\ rq_pc \in HandlerStages => rq_route \in RegisteredRoutes
    /\ (rq_pc = "done" /\ rq_payload.is_dict /\ rq_route \notin RegisteredRoutes) =>
          IF rq_route[1] \in NotYetImplementedProviders
          THEN rq_status = 501
          ELSE rq_status = 400

\* C20: a request to a registered handler whose messages list is empty is
\* answered 400 and writes no thread, message or vector.
C20_EmptyMessagesRejected ==
    (/\ rq_pc = "done"
     /\ rq_payload.is_dict
     /\ rq_route \in RegisteredRoutes
     /\ rq_payload.messages = <<>>) =>
        /\ rq_status = 400
        /\ rq_persisted.threads = {}
        /\ rq_persisted.messages = {}
        /\ rq_persisted.vectors = {}

(***************************************************************************)
(* Summarizer.summarize called on its own.                                 *)
(***************************************************************************)
SumInputs ==
    [context : Texts \cup {Oversize}, target_size : 1..MaxTokens,
     pm : TokenizerModels \cup CallerModels]

SumIdleInit ==
    /\ sum_in = [context |-> <<>>, target_size |-> 1,
                 pm |-> <<"deepseek", "deepseek-reasoner">>]
    /\ sum_out = <<>>
    /\ sum_calls = <<>>

SumInit ==
    /\ sum_in \in SumInputs
    /\ sum_out = <<>>
    /\ sum_calls = <<>>

\* summarize_context(context, target_size, provider, model)
SummarizeContext ==
    /\ UNCHANGED sumOther
    /\ sum_out = <<>>
    /\ \E t \in summarize_traced(sum_in.context, sum_in.target_size, sum_in.pm) :
          /\ sum_out' = <<t.result>>
          /\ sum_calls' = t.calls
    /\ UNCHANGED sum_in

SumNext == SummarizeContext

\* The call returned a text that is still over the target: it used up its
\* passes.
StillOverTarget ==
    /\ sum_out # <<>>
    /\ sum_out[1].content # <<>>
    /\ Count(sum_out[1].content, sum_in.pm) > sum_in.target_size

\* C14: a summary that is still over the target after the last pass has a
\* status other than the success status 200, and its reduced_size is the
\* token count of the text returned.
C14_PartialIsMarked ==
    StillOverTarget =>
       /\ sum_out[1].status # 200
       /\ sum_out[1].reduced_size = Count(sum_out[1].content, sum_in.pm)

\* The pass answered with a text whose recount is within the target.
PassReachesTarget(k) ==
    /\ ~sum_calls[k].raises
    /\ Count(sum_calls[k].text, sum_in.pm) <= sum_in.target_size

MaxChunkText == 6

MaxChunkSize == 5

ChunkChars == {"a", ".", " ", "\n"}

\* The texts of n characters.
ChunkTexts(n) == [1..n -> ChunkChars]

\* text[start:end]
StrSlice(text, start, end) == SubSeq(text, start + 1, end)

\* text.rfind(sub, start, end): the highest position in [start, end) at which
\* sub lies wholly before end, or -1.
rfind(text, sub, start, end) ==
    LET at == {i \in start..(end - Len(sub)) : StrSlice(text, i, i + Len(sub)) = sub}
    IN  IF at = {} THEN -1 ELSE CHOOSE i \in at : \A j \in at : j <= i

\* A window one character wider than chunk_size.
window_end_wide(start, chunk_size, text_length) ==
    IF start + chunk_size + 1 < text_length THEN start + chunk_size + 1 ELSE text_length

\* Line 77: end = min(start + chunk_size, text_length)
window_end(start, chunk_size, text_length) ==
    IF start + chunk_size < text_length THEN start + chunk_size ELSE text_length

\* Lines 77-89: where the chunk that starts at start ends.
chunk_end(text, start, chunk_size) ==
    LET end == window_end(start, chunk_size, Len(text))
        paragraph_end == rfind(text, <<"\n", "\n">>, start, end)
        sentence_end == rfind(text, <<".", " ">>, start, end)
    IN  IF end < Len(text)
        THEN IF paragraph_end # -1 /\ paragraph_end > start + (chunk_size \div 2)
             THEN paragraph_end + 2
             ELSE IF sentence_end # -1 /\ sentence_end > start + (chunk_size \div 3)
             THEN sentence_end + 2
             ELSE end
        ELSE end

\* Lines 75-100: the loop, from the position start on.
RECURSIVE chunk_loop(_, _, _, _)
chunk_loop(text, chunk_size, chunk_overlap, start) ==
    IF start < Len(text)
    THEN <<[start |-> start,
            chunk |-> StrSlice(text, start, chunk_end(text, start, chunk_size))]>>
         \o chunk_loop(text, chunk_size, chunk_overlap, start + chunk_size - chunk_overlap)
    ELSE <<>>

chunk_text_basic(text, chunk_size, chunk_overlap) ==
    chunk_loop(text, chunk_size, chunk_overlap, 0)

ChkIdleInit ==
    /\ chk_in = [text |-> <<>>, chunk_size |-> 1, chunk_overlap |-> 0]
    /\ chk_out = <<>>

\* Calls with chunk_size > chunk_overlap >= 0: the loop ends for these (the
\* window loop below takes the other values of the configuration as well).
ChkInit ==
    /\ \E n \in 0..MaxChunkText, chunk_size \in 1..MaxChunkSize :
          \E text \in ChunkTexts(n), chunk_overlap \in 0..(chunk_size - 1) :
             chk_in = [text |-> text, chunk_size |-> chunk_size,
                       chunk_overlap |-> chunk_overlap]
    /\ chk_out = <<>>

ChunkTextBasic ==
    /\ UNCHANGED chkOther
    /\ chk_out = <<>>
    /\ chk_out' = <<chunk_text_basic(chk_in.text, chk_in.chunk_size, chk_in.chunk_overlap)>>
    /\ UNCHANGED chk_in

ChkNext == ChunkTextBasic

ChunkEnd(c) == c.start + Len(c.chunk)

\* The chunks put together again: each chunk without the characters it
\* shares with the text assembled so far.
RECURSIVE Reassemble(_, _)
Reassemble(chunks, sofar) ==
    IF chunks = <<>> THEN sofar
    ELSE LET c == Head(chunks)
             shared == IF Len(sofar) > c.start THEN Len(sofar) - c.start ELSE 0
         IN  Reassemble(Tail(chunks),
                        sofar \o SubSeq(c.chunk, shared + 1, Len(c.chunk)))

\* C15: the chunks of a text, put together without their overlaps, are the
\* text, and every character of the text lies in some chunk.
C15_ChunksCoverInput ==
    chk_out # <<>> =>
       /\ Reassemble(chk_out[1], <<>>) = chk_in.text
       /\ \A i \in 0..(Len(chk_in.text) - 1) :
             \E k \in DOMAIN chk_out[1] :
                chk_out[1][k].start <= i /\ i < ChunkEnd(chk_out[1][k])

\* C16: every chunk is non-empty and at most chunk_size long, the chunks
\* are in the order of their start positions, and two consecutive chunks
\* share at most chunk_overlap characters.
C16_ChunksBounded ==
    chk_out # <<>> =>
       LET chunks == chk_out[1]
       IN  /\ \A k \in DOMAIN chunks :
                 /\ Len(chunks[k].chunk) >= 1
                 /\ Len(chunks[k].chunk) <= chk_in.chunk_size
                 /\ chunks[k].chunk
                       = StrSlice(chk_in.text, chunks[k].start, ChunkEnd(chunks[k]))
           /\ \A k \in DOMAIN chunks :
                 k > 1 =>
                    /\ chunks[k - 1].start < chunks[k].start
                    /\ ChunkEnd(chunks[k - 1]) - chunks[k].start <= chk_in.chunk_overlap

\* Three chunks, the first cut at a sentence break, the second sharing
\* characters with the first.
C16_Witness ==
    /\ chk_out # <<>>
    /\ Len(chk_out[1]) >= 3
    /\ Len(chk_out[1][1].chunk) < chk_in.chunk_size
    /\ ChunkEnd(chk_out[1][1]) < Len(chk_in.text)
    /\ ChunkEnd(chk_out[1][1]) > chk_out[1][2].start
    /\ chk_in.chunk_overlap >= 1

(***************************************************************************)
(* update_thread and increment_thread_usage on one thread.  The row lives  *)
(* in the persistence backend; increment_thread_usage reads it with one    *)
(* request and writes it with another, and several calls can be in flight. *)
(* cost is counted in whole units.                                         *)
(***************************************************************************)
MaxUpdates == 3

MaxAdd == 2

Callers == {1, 2}

UsageValues == 0..MaxAdd

\* update_data: each field is given (one value) or left out.
UpdateData ==
    [tokens_spent : Optional(UsageValues), cost : Optional(UsageValues)]

\* update_thread, lines 43-58: the PATCH sets the fields update_data gives;
\* a backend that does not answer 200 leaves the row as it is.
update_thread(row, update_data, backend_ok) ==
    IF ~backend_ok THEN row
    ELSE [tokens_spent |-> Get(update_data.tokens_spent, row.tokens_spent),
          cost |-> Get(update_data.cost, row.cost)]

NoCall == [pc |-> "idle", current_tokens |-> 0, current_cost |-> 0,
           additional_tokens |-> 0, additional_cost |-> 0]

UsageInit ==
    /\ usage_row = [tokens_spent |-> 0, cost |-> 0]
    /\ usage_calls = [c \in Callers |-> NoCall]
    /\ usage_done = 0

\* A caller calls update_thread itself.
UpdateThread ==
    /\ UNCHANGED usageOther
    /\ usage_done < MaxUpdates
    /\ \E update_data \in UpdateData, backend_ok \in BOOLEAN :
          usage_row' = update_thread(usage_row, update_data, backend_ok)
    /\ usage_done' = usage_done + 1
    /\ UNCHANGED usage_calls

\* increment_thread_usage, lines 79-97: the GET of the current row.
ReadThreadUsage(c) ==
    /\ UNCHANGED usageOther
    /\ usage_calls[c].pc = "idle"
    /\ usage_done < MaxUpdates
    /\ \E additional_tokens \in 0..MaxAdd, additional_cost \in 0..MaxAdd, found \in BOOLEAN :
          IF found
          THEN /\ usage_calls' =
                     [usage_calls EXCEPT
                        ![c] = [pc |-> "read",
                                current_tokens |-> usage_row.tokens_spent,
                                current_cost |-> usage_row.cost,
                                additional_tokens |-> additional_tokens,
                                additional_cost |-> additional_cost]]
               /\ UNCHANGED usage_done
          ELSE /\ usage_done' = usage_done + 1
               /\ UNCHANGED usage_calls
    /\ UNCHANGED usage_row

\* increment_thread_usage, lines 99-110: the new values and their PATCH.
WriteThreadUsage(c) ==
    /\ UNCHANGED usageOther
    /\ usage_calls[c].pc = "read"
    /\ LET call == usage_calls[c]
           update_data ==
              [tokens_spent |-> <<call.current_tokens + call.additional_tokens>>,
               cost |-> <<call.current_cost + call.additional_cost>>]
       IN  \E backend_ok \in BOOLEAN :
              usage_row' = update_thread(usage_row, update_data, backend_ok)
    /\ usage_calls' = [usage_calls EXCEPT ![c] = NoCall]
    /\ usage_done' = usage_done + 1

UsageNext ==
    \/ UpdateThread
    \/ \E c \in Callers : ReadThreadUsage(c)
    \/ \E c \in Callers : WriteThreadUsage(c)

\* C17: no step lowers tokens_spent or cost of the thread.
C17_UsageMonotone ==
    [][/\ usage_row'.tokens_spent >= usage_row.tokens_spent
       /\ usage_row'.cost >= usage_row.cost]_vars

(***************************************************************************)
(* Specifications.                                                         *)
(***************************************************************************)
\* The components a specification does not run, in their idle values.
(***************************************************************************)
(* Parse.parse.  A parser's answer is kept as its kind: what the loop of   *)
(* Parse.parse does with it depends on nothing else.                       *)
(***************************************************************************)
Extensions == {".pdf", ".mp3", ".mpeg", ".mov", ".mp4", ".webm", ".txt", ".exe"}

\* self.file_type_parsers, lines 40-103, for the extensions above.
file_type_parsers(file_ext) ==
    CASE file_ext = ".pdf" -> <<"GeminiPDFParser">>
      [] file_ext = ".mp3" -> <<"GeminiAudioParser">>
      [] file_ext = ".mpeg" -> <<"GeminiAudioParser", "GeminiVideoParser">>
      [] file_ext = ".mov" -> <<"GeminiVideoParser">>
      [] file_ext = ".mp4" -> <<"GeminiVideoParser", "GeminiAudioParser">>
      [] file_ext = ".webm" -> <<"GeminiVideoParser", "GeminiAudioParser">>
      [] file_ext = ".txt" -> <<"TextDocParser">>
      [] OTHER -> <<>>

MaxParsers == 2

\* What parser.parse(file_path) can do: raise, or return a string that is
\* not JSON (the text of a file, "Error processing video: ..."), a string
\* holding a JSON object with or without the key file_content, a string
\* holding a JSON number, a dict with or without the key, or another type.
ParserAnswers ==
    {"raises", "not_json", "json_content", "json_no_content", "json_number",
     "dict_content", "dict_no_content", "other_type"}

\* Lines 161-213: what one pass of the loop does with the parser's answer.
\* "return_ok" is the return of status 200, "continue" goes to the next
\* parser, "return_error" is a return of status 400 with tools_used [].
handle_result(answer) ==
    CASE answer \in {"json_content", "dict_content"} -> "return_ok"
      [] answer \in {"raises", "json_no_content", "dict_no_content", "other_type"}
            -> "continue"
      [] answer \in {"not_json", "json_number"} -> "return_error"

ParseResult(status, content, tools_used) ==
    [status |-> status, content |-> content, tools_used |-> tools_used]

ParseInputs ==
    [exists : BOOLEAN, file_ext : Extensions,
     answers : [1..MaxParsers -> ParserAnswers]]

ParseIdleInit ==
    /\ parse_in = [exists |-> FALSE, file_ext |-> ".exe",
                   answers |-> [k \in 1..MaxParsers |-> "raises"]]
    /\ parse_pc = "done"
    /\ parse_tools = <<>>
    /\ parse_out = <<>>

ParseInit ==
    /\ parse_in \in ParseInputs
    /\ parse_pc = "start"
    /\ parse_tools = <<>>
    /\ parse_out = <<>>

\* Lines 133-152: the file is looked up and its parsers are selected.
SelectParsers ==
    /\ UNCHANGED parseOther
    /\ parse_pc = "start"
    /\ IF ~parse_in.exists
       THEN /\ parse_out' = <<ParseResult(400, "file_not_found", <<>>)>>
            /\ parse_pc' = "done"
       ELSE IF file_type_parsers(parse_in.file_ext) = <<>>
       THEN /\ parse_out' = <<ParseResult(400, "unsupported_file_type", <<>>)>>
            /\ parse_pc' = "done"
       ELSE /\ parse_pc' = "loop"
            /\ UNCHANGED parse_out
    /\ UNCHANGED <<parse_in, parse_tools>>

\* Lines 154-213: one pass of "for parser in parsers".
TryParser ==
    /\ UNCHANGED parseOther
    /\ parse_pc = "loop"
    /\ Len(parse_tools) < Len(file_type_parsers(parse_in.file_ext))
    /\ LET k == Len(parse_tools) + 1
           parser_name == file_type_parsers(parse_in.file_ext)[k]
           tools_used == Append(parse_tools, parser_name)
           handling == handle_result(parse_in.answers[k])
       IN  /\ parse_tools' = tools_used
           /\ IF handling = "return_ok"
              THEN /\ parse_out' = <<ParseResult(200, "file_content", tools_used)>>
                   /\ parse_pc' = "done"
              ELSE IF handling = "return_error"
              THEN /\ parse_out' = <<ParseResult(400, "error", <<>>)>>
                   /\ parse_pc' = "done"
              ELSE UNCHANGED <<parse_out, parse_pc>>
    /\ UNCHANGED parse_in

\* Lines 216-221: the loop ran out of parsers.
AllParsersFailed ==
    /\ UNCHANGED parseOther
    /\ parse_pc = "loop"
    /\ Len(parse_tools) = Len(file_type_parsers(parse_in.file_ext))
    /\ parse_out' = <<ParseResult(400, "all_parsers_failed", parse_tools)>>
    /\ parse_pc' = "done"
    /\ UNCHANGED <<parse_in, parse_tools>>

ParseNext == SelectParsers \/ TryParser \/ AllParsersFailed

\* Parse.parse returned after it had entered its loop.
ParsersWereTried ==
    /\ parse_pc = "done"
    /\ parse_out # <<>>
    /\ parse_in.exists
    /\ file_type_parsers(parse_in.file_ext) # <<>>

\* C29: the parsers of the extension are tried in list order; the call
\* stops at the first that succeeds; an answer that is a failure or
\* unusable never keeps the next parser from being tried; and tools_used
\* of the result lists exactly the parsers tried, in order.
C29_FallbackInOrder ==
    ParsersWereTried =>
       LET parsers == file_type_parsers(parse_in.file_ext)
           tried == parse_tools
       IN  /\ Len(tried) <= Len(parsers)
           /\ \A k \in DOMAIN tried : tried[k] = parsers[k]
           /\ parse_out[1].tools_used = tried
           /\ \A k \in DOMAIN tried :
                 handle_result(parse_in.answers[k]) = "return_ok" => k = Len(tried)
           /\ parse_out[1].status = 200
                 <=> handle_result(parse_in.answers[Len(tried)]) = "return_ok"
           /\ parse_out[1].status # 200 => Len(tried) = Len(parsers)

AmbiguousExtensions == {".mp4", ".webm", ".mpeg"}

\* C30: for the extensions .mp4, .webm and .mpeg the first parser tried
\* is the video parser and the second the audio parser.
C30_VideoBeforeAudio ==
    (parse_in.file_ext \in AmbiguousExtensions /\ parse_tools # <<>>) =>
       /\ parse_tools[1] = "GeminiVideoParser"
       /\ Len(parse_tools) = 2 => parse_tools[2] = "GeminiAudioParser"

(***************************************************************************)
(* retrieve_relevant_context: the limit it passes to search_vectors.       *)
(* The argument top_k = None is kept as 0; both are false in "top_k or 5". *)
(***************************************************************************)
TopKArguments == {0, 3}

\* What get_optimal_top_k(query_text) does: it raises (the API call or
\* json.loads fails), or returns json.loads of the model's message, which
\* is a list, an object without the key top_k, or an object with it.
TopKValues == {0, 3, 4, 5, 8, 10}

TopKAnswers ==
    {[kind |-> k, top_k |-> 0] : k \in {"raises", "list", "no_key"}}
       \cup {[kind |-> "value", top_k |-> n] : n \in TopKValues}

\* Lines 60-68: "limit = top_k or 5", then the adaptive value.  A list has
\* no method get: the AttributeError is caught with the other exceptions.
search_limit(top_k, use_optimal_k, answer) ==
    LET limit == IF top_k # 0 THEN top_k ELSE 5
    IN  IF use_optimal_k /\ top_k = 0
        THEN IF answer.kind \in {"raises", "list"} THEN limit
             ELSE IF answer.kind = "no_key" THEN 5
             ELSE answer.top_k
        ELSE limit

RetInputs ==
    [query_empty : BOOLEAN, embedding : {"list", "none", "raises"},
     top_k : TopKArguments, use_optimal_k : BOOLEAN, answer : TopKAnswers]

RetIdleInit ==
    /\ ret_in = [query_empty |-> TRUE, embedding |-> "none", top_k |-> 0,
                 use_optimal_k |-> FALSE, answer |-> [kind |-> "raises", top_k |-> 0]]
    /\ ret_pc = "done"
    /\ ret_limit = <<>>

RetInit ==
    /\ ret_in \in RetInputs
    /\ ret_pc = "start"
    /\ ret_limit = <<>>

\* Lines 40-78: nothing is searched for an empty query or without an
\* embedding; otherwise search_vectors is called with limit.
RetrieveRelevantContext ==
    /\ UNCHANGED retOther
    /\ ret_pc = "start"
    /\ ret_pc' = "done"
    /\ ret_limit' =
          IF ret_in.query_empty \/ ret_in.embedding # "list" THEN <<>>
          ELSE <<search_limit(ret_in.top_k, ret_in.use_optimal_k, ret_in.answer)>>
    /\ UNCHANGED ret_in

RetNext == RetrieveRelevantContext

\* The limit of the search was computed by the top-k classifier's branch.
AdaptiveSearch ==
    /\ ret_limit # <<>>
    /\ ret_in.use_optimal_k
    /\ ret_in.top_k = 0

UsableTopK ==
    ret_in.answer.kind = "value" /\ ret_in.answer.top_k \in {3, 5, 8}

\* C31: the k of an adaptive search is one of 3, 5 and 8, and it is 5 when
\* the top-k classifier failed or returned no usable value.
C31_AdaptiveKInRange ==
    AdaptiveSearch =>
       /\ ret_limit[1] \in {3, 5, 8}
       /\ ~UsableTopK => ret_limit[1] = 5

(***************************************************************************)
(* Web search: get_preferred_search_tool and the _run of the tool chosen.  *)
(* A credential is kept as the boolean "the key is configured".            *)
(***************************************************************************)
SearchPreferences == {"tavily", "linkup", "other"}

NoProvider == "none"

\* get_preferred_search_tool, lines 19-47: the tool class and whether it
\* is built with a key.  Without any key it is TavilySearchTool(api_key="").
get_preferred_search_tool(preference, tavily_key, linkup_key) ==
    IF preference = "linkup" /\ linkup_key THEN [provider |-> "linkup", has_key |-> TRUE]
    ELSE IF preference = "tavily" /\ tavily_key THEN [provider |-> "tavily", has_key |-> TRUE]
    ELSE IF tavily_key THEN [provider |-> "tavily", has_key |-> TRUE]
    ELSE IF linkup_key THEN [provider |-> "linkup", has_key |-> TRUE]
    ELSE [provider |-> "tavily", has_key |-> FALSE]

\* The dictionary _run returns: the key success is True, False or missing.
SearchResult(success, error, called) ==
    [success |-> success, error |-> error, called |-> called]

\* TavilySearchTool._run (lines 59-122) and LinkupSearchTool._run (lines
\* 49-131) have the same shape: two early returns, then the provider call.
tool_run(tool, initialized, provider_raises) ==
    IF ~initialized THEN SearchResult("missing", "Search tool not initialized", NoProvider)
    ELSE IF ~tool.has_key THEN SearchResult("missing", "API key is missing", NoProvider)
    ELSE IF provider_raises THEN SearchResult("false", "exception", tool.provider)
    ELSE SearchResult("true", "", tool.provider)

WebInputs ==
    [preference : SearchPreferences, tavily_key : BOOLEAN, linkup_key : BOOLEAN,
     initialized : BOOLEAN, provider_raises : BOOLEAN]

WebIdleInit ==
    /\ web_in = [preference |-> "tavily", tavily_key |-> FALSE, linkup_key |-> FALSE,
                 initialized |-> FALSE, provider_raises |-> FALSE]
    /\ web_tool = <<>>
    /\ web_out = <<[success |-> "missing", error |-> "", called |-> NoProvider]>>

WebInit ==
    /\ web_in \in WebInputs
    /\ web_tool = <<>>
    /\ web_out = <<>>

\* unified_search, line 186: web_search_tool = get_preferred_search_tool()
GetPreferredSearchTool ==
    /\ UNCHANGED webOther
    /\ web_tool = <<>>
    /\ web_out = <<>>
    /\ web_tool' = <<get_preferred_search_tool(web_in.preference, web_in.tavily_key,
                                               web_in.linkup_key)>>
    /\ UNCHANGED <<web_in, web_out>>

\* unified_search, line 187: web_results = web_search_tool._run(query)
RunWebSearch ==
    /\ UNCHANGED webOther
    /\ web_tool # <<>>
    /\ web_out = <<>>
    /\ web_out' = <<tool_run(web_tool[1], web_in.initialized, web_in.provider_raises)>>
    /\ UNCHANGED <<web_in, web_tool>>

WebNext == GetPreferredSearchTool \/ RunWebSearch

HasKey(provider) ==
    IF provider = "tavily" THEN web_in.tavily_key
    ELSE IF provider = "linkup" THEN web_in.linkup_key
    ELSE FALSE

\* C33: the tool is the preferred provider's when that has a key, otherwise
\* that of a provider that has one; with no key at all the search returns a
\* result with success = false and no provider is called.
C33_ProviderSelection ==
    /\ web_tool # <<>> =>
          /\ HasKey(web_in.preference) => web_tool[1].provider = web_in.preference
          /\ (web_in.tavily_key \/ web_in.linkup_key) => HasKey(web_tool[1].provider)
    /\ (web_out # <<>> /\ web_tool # <<>> /\ ~web_in.tavily_key /\ ~web_in.linkup_key) =>
          /\ web_out[1].success = "false"
          /\ web_out[1].called = NoProvider


\* ---------------------------------------------------------------------------
\* Two POST /files requests in flight at once (server/api/v1/files.py).
\* The handler is a coroutine whose calls to the files table are blocking
\* HTTP requests: in one server process nothing else runs between the lookup
\* by hash and the create or update; two processes serving the application
\* share the table and interleave at every call.  The table's schema is not
\* part of the repository, so whether it refuses a second record of a
\* content_hash is an input.
\* ---------------------------------------------------------------------------
Uploaders == {1, 2}

ServerProcesses == {1, 2}

CuBodies == {1, 2}

CuFilenames == {<<"report", ".pdf">>, <<"SCAN", ".PDF">>}

CuRecord(address) ==
    [file_id |-> 1, filename |-> <<"report", ".pdf">>, content_hash |-> sha256(1),
     address |-> address]

CuTables == {<<>>, <<CuRecord(<<"file-", 0, ".pdf">>)>>, <<CuRecord(deleted)>>}

CuStart == [pc |-> "start", b |-> 0, filename |-> <<>>, found |-> <<>>,
            stored_filename |-> <<>>, file_id |-> <<>>]

CuIdleInit ==
    /\ cu_files = <<>>
    /\ cu_uuids = 0
    /\ cu_workers = 1
    /\ cu_unique = FALSE
    /\ cu_running = 0
    /\ cu_up = [u \in Uploaders |-> CuStart]

CuInit ==
    /\ cu_files \in CuTables
    /\ cu_uuids = 0
    /\ cu_workers \in ServerProcesses
    /\ cu_unique \in BOOLEAN
    /\ cu_running = 0
    /\ cu_up = [u \in Uploaders |-> CuStart]

\* The event loop of a single process is free for request u.
LoopFree(u) == cu_workers > 1 \/ cu_running \in {0, u}

Hold(u) == IF cu_workers > 1 THEN 0 ELSE u

\* Lines 128-146: await file.read(), the size and extension checks, sha256.
CuReadFile(u) ==
    /\ UNCHANGED cuOther
    /\ cu_up[u].pc = "start"
    /\ LoopFree(u)
    /\ \E b \in CuBodies, filename \in CuFilenames :
          cu_up' = [cu_up EXCEPT ![u] = [@ EXCEPT !.pc = "hashed", !.b = b,
                                                 !.filename = filename]]
    /\ UNCHANGED <<cu_files, cu_uuids, cu_workers, cu_unique, cu_running>>

\* Line 149: existing_file = find_existing_file_by_hash(binary_content_hash).
CuFindExisting(u) ==
    /\ UNCHANGED cuOther
    /\ cu_up[u].pc = "hashed"
    /\ LoopFree(u)
    /\ LET found == find_existing_file_by_hash(cu_files, sha256(cu_up[u].b))
       IN  \/ /\ found = {}
              /\ cu_up' = [cu_up EXCEPT ![u] = [@ EXCEPT !.pc = "found"]]
           \/ \E existing_file \in found :
                 cu_up' = [cu_up EXCEPT ![u] = [@ EXCEPT !.pc = "found",
                                                        !.found = <<existing_file>>]]
    /\ cu_running' = Hold(u)
    /\ UNCHANGED <<cu_files, cu_uuids, cu_workers, cu_unique>>

\* Lines 153-175: the record exists; its address is kept, or a deleted
\* record gets a new file on disk, and the record is updated by hash.
CuUpdateExisting(u) ==
    /\ UNCHANGED cuOther
    /\ cu_up[u].pc = "found"
    /\ cu_up[u].found # <<>>
    /\ LoopFree(u)
    /\ LET existing_file == cu_up[u].found[1]
           restore == existing_file.address = deleted
           stored_filename == IF restore
                              THEN save_file_to_disk(cu_uuids, cu_up[u].filename)
                              ELSE existing_file.address
           upd == update_file_by_content_hash(cu_files, sha256(cu_up[u].b),
                                              stored_filename)
       IN  /\ cu_uuids' = IF restore THEN cu_uuids + 1 ELSE cu_uuids
           /\ cu_files' = upd.files
           /\ cu_up' = [cu_up EXCEPT ![u] =
                          [@ EXCEPT !.pc = "done",
                                    !.stored_filename = stored_filename,
                                    !.file_id = IF upd.updated = <<>> THEN <<>>
                                                ELSE <<upd.updated[1].file_id>>]]
    /\ cu_running' = 0
    /\ UNCHANGED <<cu_workers, cu_unique>>

\* Lines 177-178: no record was found; the bytes are written to disk.
CuSaveToDisk(u) ==
    /\ UNCHANGED cuOther
    /\ cu_up[u].pc = "found"
    /\ cu_up[u].found = <<>>
    /\ LoopFree(u)
    /\ cu_up' = [cu_up EXCEPT ![u] =
                   [@ EXCEPT !.pc = "saved",
                             !.stored_filename =
                                save_file_to_disk(cu_uuids, cu_up[u].filename)]]
    /\ cu_uuids' = cu_uuids + 1
    /\ cu_running' = Hold(u)
    /\ UNCHANGED <<cu_files, cu_workers, cu_unique>>

\* Lines 211-222: create_file(...); a refused POST raises and the file of
\* this request fails (lines 234-240).
CuCreateFile(u) ==
    /\ UNCHANGED cuOther
    /\ cu_up[u].pc = "saved"
    /\ LoopFree(u)
    /\ LET content_hash == sha256(cu_up[u].b)
           refused == cu_unique
                        /\ find_existing_file_by_hash(cu_files, content_hash) # {}
           created == create_file(cu_files, cu_up[u].filename,
                                  cu_up[u].stored_filename, content_hash)
       IN  IF refused
           THEN /\ cu_files' = cu_files
                /\ cu_up' = [cu_up EXCEPT ![u] = [@ EXCEPT !.pc = "done"]]
           ELSE /\ cu_files' = created
                /\ cu_up' = [cu_up EXCEPT ![u] =
                               [@ EXCEPT !.pc = "done",
                                         !.file_id = <<created[Len(created)].file_id>>]]
    /\ cu_running' = 0
    /\ UNCHANGED <<cu_uuids, cu_workers, cu_unique>>

CuNext ==
    \E u \in Uploaders :
       \/ CuReadFile(u)
       \/ CuFindExisting(u)
       \/ CuUpdateExisting(u)
       \/ CuSaveToDisk(u)
       \/ CuCreateFile(u)

\* C34: two uploads of identical bytes in flight at once leave no two file
\* records with one content_hash, and once both are answered they have
\* returned the same file_id.
C34_ConcurrentUploadDedup ==
    /\ \A i, j \in DOMAIN cu_files :
          cu_files[i].content_hash = cu_files[j].content_hash => i = j
    /\ (/\ \A u \in Uploaders : cu_up[u].pc = "done"
        /\ cu_up[1].b = cu_up[2].b)
          => /\ cu_up[1].file_id # <<>>
             /\ cu_up[1].file_id = cu_up[2].file_id


\* ---------------------------------------------------------------------------
\* The window loop of _chunk_text_basic, one iteration at a time
\* (tools/docs/chunking.py, lines 71-100).  chunk_size and chunk_overlap are
\* the values of the configuration file (message_utils.py, lines 157-161),
\* which nothing validates.  Only the chunk appended last is kept.
\* ---------------------------------------------------------------------------
MaxWindowText == 3

MaxWindowSize == 3

WlIdleInit ==
    /\ wl_in = [text |-> <<>>, chunk_size |-> 1, chunk_overlap |-> 0]
    /\ wl_pc = "done"
    /\ wl_start = 0
    /\ wl_chunk = <<>>

WlInit ==
    /\ \E n \in 0..MaxWindowText, chunk_size \in 1..MaxWindowSize :
          \E text \in ChunkTexts(n), chunk_overlap \in 0..chunk_size :
             wl_in = [text |-> text, chunk_size |-> chunk_size,
                      chunk_overlap |-> chunk_overlap]
    /\ wl_pc = "loop"
    /\ wl_start = 0
    /\ wl_chunk = <<>>

\* Line 96: start = start + chunk_size - chunk_overlap
next_start(start, chunk_size, chunk_overlap) == start + chunk_size - chunk_overlap

\* Lines 75-100: one iteration of while start < text_length, with its break.
WindowIteration ==
    /\ UNCHANGED wlOther
    /\ wl_pc = "loop"
    /\ wl_start < Len(wl_in.text)
    /\ wl_chunk' = <<StrSlice(wl_in.text, wl_start,
                              chunk_end(wl_in.text, wl_start, wl_in.chunk_size))>>
    /\ wl_start' = next_start(wl_start, wl_in.chunk_size, wl_in.chunk_overlap)
    /\ wl_pc' = IF wl_start' >= Len(wl_in.text) THEN "done" ELSE "loop"
    /\ UNCHANGED wl_in

\* Line 75: the loop condition is false on entry (the text is empty).
WindowLoopSkipped ==
    /\ UNCHANGED wlOther
    /\ wl_pc = "loop"
    /\ ~(wl_start < Len(wl_in.text))
    /\ wl_pc' = "done"
    /\ UNCHANGED <<wl_in, wl_start, wl_chunk>>

WlNext ==
    \/ WindowIteration
    \/ WindowLoopSkipped

\* C35: for every text, chunk_size > 0 and chunk_overlap >= 0 the window
\* loop of _chunk_text_basic ends.
C35_ChunkerTerminates == <>(wl_pc = "done")


\* ---------------------------------------------------------------------------
\* process_attachments_for_vectorization (tools/docs/attachment_utils.py),
\* called once per created message that has attachments (message_utils.py,
\* lines 221-232).  A vector of namespace "files" is kept as the thread,
\* metadata.file_id and metadata.chunk_index of its row.
\* ---------------------------------------------------------------------------
MaxAttachMessages == 2

AttachThreads == {1, 2}

AttachFileIds == {1, 2}

\* len(text_chunks) of each file.
FileChunks == <<2, 1>>

\* The file_ids of a message.
AttachLists == UNION {[1..n -> AttachFileIds] : n \in 1..2}

\* The (position in file_ids, chunk index) pairs a call can embed and store.
ChunkSlots == (1..2) \X (0..1)

\* Lines 171-232: the chunks of one file; a chunk whose embedding is missing
\* or invalid, or whose create_vector raises, is skipped.
file_chunk_vectors(thread_id, file_id, k, embedded) ==
    LET all == [i \in 1..FileChunks[file_id] |->
                   [thread_id |-> thread_id, file_id |-> file_id, chunk_index |-> i - 1]]
        stored(v) == <<k, v.chunk_index>> \in embedded
    IN  SelectSeq(all, stored)

\* Lines 63-239: the loop over file_ids, from position k on: the rows that
\* create_vector adds.
RECURSIVE process_attachments_for_vectorization(_, _, _, _)
process_attachments_for_vectorization(thread_id, file_ids, k, embedded) ==
    IF k > Len(file_ids) THEN <<>>
    ELSE file_chunk_vectors(thread_id, file_ids[k], k, embedded)
         \o process_attachments_for_vectorization(thread_id, file_ids, k + 1, embedded)

AvIdleInit ==
    /\ av_vectors = <<>>
    /\ av_messages = 0

AvInit == AvIdleInit

\* A message with attachments is created in a thread and its files are
\* vectorized.
VectorizeAttachments ==
    /\ UNCHANGED avOther
    /\ av_messages < MaxAttachMessages
    /\ \E thread_id \in AttachThreads, file_ids \in AttachLists,
          embedded \in SUBSET ChunkSlots :
          av_vectors' = av_vectors
             \o process_attachments_for_vectorization(thread_id, file_ids, 1, embedded)
    /\ av_messages' = av_messages + 1

AvNext == VectorizeAttachments

\* C37: namespace "files" of a thread holds at most one vector per
\* (file_id, chunk_index): attaching a file again stores no chunk twice.
C37_OneVectorPerChunk ==
    \A p, q \in DOMAIN av_vectors : av_vectors[p] = av_vectors[q] => p = q

IdleNew == SumIdleInit /\ ChkIdleInit /\ UsageInit /\ ParseIdleInit /\ RetIdleInit /\ WebIdleInit /\ CuIdleInit /\ WlIdleInit /\ AvIdleInit

SpecCtxInit == CtxInit /\ FilesInit /\ VecInit /\ ClsInit /\ ReqInit /\ IdleNew

SpecCtx == SpecCtxInit /\ [][CtxNext]_vars

SpecFilesInit == CtxIdleInit /\ FilesInit /\ VecInit /\ ClsInit /\ ReqInit /\ IdleNew

SpecFiles == SpecFilesInit /\ [][FilesNext]_vars

SpecVecInit == CtxIdleInit /\ FilesInit /\ VecInit /\ ClsInit /\ ReqInit /\ IdleNew

SpecVec == SpecVecInit /\ [][VecNext]_vars

SpecClsInit == CtxIdleInit /\ FilesInit /\ VecInit /\ ClsInit /\ ReqInit /\ IdleNew

SpecCls == SpecClsInit /\ [][ClsNext]_vars

SpecReqInit == CtxIdleInit /\ FilesInit /\ VecInit /\ ClsInit /\ ReqInit /\ IdleNew

SpecReq == SpecReqInit /\ [][ReqNext]_vars

\* The handlers with remote services that may never answer.  A handler
\* that can take a step takes it.
SpecReqWait == SpecReqInit /\ [][ReqWaitNext]_vars /\ WF_vars(ReqWaitNext)

IdleOld == CtxIdleInit /\ FilesInit /\ VecInit /\ ClsInit /\ ReqInit

SpecSumInit == IdleOld /\ SumInit /\ ChkIdleInit /\ UsageInit /\ ParseIdleInit /\ RetIdleInit /\ WebIdleInit /\ CuIdleInit /\ WlIdleInit /\ AvIdleInit

SpecSum == SpecSumInit /\ [][SumNext]_vars

SpecChkInit == IdleOld /\ SumIdleInit /\ ChkInit /\ UsageInit /\ ParseIdleInit /\ RetIdleInit /\ WebIdleInit /\ CuIdleInit /\ WlIdleInit /\ AvIdleInit

SpecChk == SpecChkInit /\ [][ChkNext]_vars

SpecUsageInit == IdleOld /\ SumIdleInit /\ ChkIdleInit /\ UsageInit /\ ParseIdleInit /\ RetIdleInit /\ WebIdleInit /\ CuIdleInit /\ WlIdleInit /\ AvIdleInit

SpecUsage == SpecUsageInit /\ [][UsageNext]_vars

SpecParseInit == IdleOld /\ SumIdleInit /\ ChkIdleInit /\ UsageInit /\ ParseInit /\ RetIdleInit /\ WebIdleInit /\ CuIdleInit /\ WlIdleInit /\ AvIdleInit

SpecParse == SpecParseInit /\ [][ParseNext]_vars

SpecRetInit == IdleOld /\ SumIdleInit /\ ChkIdleInit /\ UsageInit /\ ParseIdleInit /\ RetInit /\ WebIdleInit /\ CuIdleInit /\ WlIdleInit /\ AvIdleInit

SpecRet == SpecRetInit /\ [][RetNext]_vars

SpecWebInit == IdleOld /\ SumIdleInit /\ ChkIdleInit /\ UsageInit /\ ParseIdleInit /\ RetIdleInit /\ WebInit /\ CuIdleInit /\ WlIdleInit /\ AvIdleInit

SpecWeb == SpecWebInit /\ [][WebNext]_vars

SpecCuInit == IdleOld /\ SumIdleInit /\ ChkIdleInit /\ UsageInit /\ ParseIdleInit /\ RetIdleInit /\ WebIdleInit /\ CuInit /\ WlIdleInit /\ AvIdleInit

SpecCu == SpecCuInit /\ [][CuNext]_vars

SpecWlInit == IdleOld /\ SumIdleInit /\ ChkIdleInit /\ UsageInit /\ ParseIdleInit /\ RetIdleInit /\ WebIdleInit /\ CuIdleInit /\ WlInit /\ AvIdleInit

SpecWl == SpecWlInit /\ [][WlNext]_vars /\ WF_vars(WlNext)

SpecAvInit == IdleOld /\ SumIdleInit /\ ChkIdleInit /\ UsageInit /\ ParseIdleInit /\ RetIdleInit /\ WebIdleInit /\ CuIdleInit /\ WlIdleInit /\ AvInit

SpecAv == SpecAvInit /\ [][AvNext]_vars

====
